---- MODULE Spec2Model ----
(***************************************************************************)
(* Relay server of unity-mcp-client: the request cache                     *)
(* (src/relay/request_cache.py), the instance registry                     *)
(* (src/relay/instance_registry.py) and the dispatch core                  *)
(* (src/relay/server.py), as state machines.                               *)
(*                                                                         *)
(* The program runs on one asyncio event loop: a task runs without         *)
(* interruption until it awaits something that is not ready.  Each action  *)
(* below is one such run of one task, from a suspension point to the next. *)
(* An `async with lock` on a free asyncio.Lock does not suspend.           *)
(***************************************************************************)
EXTENDS Integers, Sequences, FiniteSets, TLC

VARIABLES
    ticks,            \* wall clock, in sweeper periods (ttl / 2)
    cache,            \* RequestCache._cache: request id -> CacheEntry
    pending,          \* RequestCache._pending: keys holding an in-flight Event
    pending_results,  \* RequestCache._pending_results: request id -> response
    calls,            \* one record per handle_request invocation (task)
    nexec,            \* number of execute_fn invocations so far
    last,             \* history: how the handle_request that ended in the last step ended
    recs,             \* the UnityInstance objects created so far
    instances,        \* InstanceRegistry._instances, in insertion order
    default_instance_id,  \* InstanceRegistry._default_instance_id
    grace_period_tasks,   \* InstanceRegistry._grace_period_tasks: id -> timer
    was_default,      \* InstanceRegistry._was_default: id -> bool
    timers,           \* the grace_period_timeout tasks created so far
    lock,             \* InstanceRegistry._lock: holder and FIFO of waiters
    tasks,            \* the tasks that call the registry
    heartbeat_tasks,  \* RelayServer._heartbeat_tasks: id -> heartbeat task
    heartbeats,       \* the heartbeat tasks that run: task -> consecutive_failures
    pending_commands, \* RelayServer._pending_commands: request id -> Future
    reqs,             \* one record per _execute_command invocation
    answered,         \* history: request id -> the last successful response
    gap,              \* history: defaults that left while RELOADING
    executions,       \* the _execute_command invocations of the queue's commands
    queue_log,        \* history: request ids in the order enqueued and emitted
    pending_pongs,    \* RelayServer._pending_pongs: id -> the heartbeat task whose Event it holds
    pong_events,      \* the heartbeat tasks that wait for a PONG: task -> Event is set
    running,          \* RelayServer._running
    wire,             \* one connection's byte stream with the frame written to and read from it
    clock             \* the clock, and the times one connection's handler and heartbeat loop go by

cacheState == <<ticks, cache, pending, pending_results, calls, nexec>>

cacheVars == <<cacheState, last>>

regVars == <<recs, instances, default_instance_id, grace_period_tasks, was_default,
             timers, lock, tasks>>

srvVars == <<heartbeat_tasks, running, wire, clock, heartbeats, pending_pongs, pong_events,
             pending_commands, reqs, answered, gap, executions, queue_log>>

vars == <<cacheVars, regVars, srvVars>>

(***************************************************************************)
(* Bounds of the model.                                                    *)
(***************************************************************************)
MaxTicks == 3      \* the clock stops after this many sweeper periods
MaxExec == 3       \* execute_fn is invoked at most this many times
NumCalls == 3      \* handle_request invocations that may be live at once
NumTasks == 2      \* tasks calling the registry that may be live at once
MaxRecs == 2       \* at most this many registrations (UnityInstance objects)
MaxTimers == 2     \* at most this many grace periods are started
MaxConns == 3      \* SpecAgents: at most this many agent connections are accepted
MaxRelayConns == 1 \* SpecRelay, SpecRetry: agent connections accepted
MaxRelayExec == 2  \* SpecRelay, SpecRetry: _execute_command invocations
NumRelayCalls == 2 \* SpecRelay: REQUEST handlers that may be live at once
NumRetryCalls == 1 \* SpecRetry: REQUEST handlers that may be live at once
NumData == 2       \* distinct payloads an agent puts into a COMMAND_RESULT
PollSpan == 20     \* one modelled sleep of the wait loop stands for so many polls
MaxLive == 3       \* SpecResolve: instances live at the start
MaxClientConns == 2   \* SpecClients: agent connections accepted
MaxClientExec == 1    \* SpecClients: executions started
NumClientCalls == 1   \* SpecClients: REQUESTs in flight at once
MaxQueueCalls == 4    \* SpecQueue: REQUESTs that arrive
MaxQueueExecs == 6    \* SpecQueue: _execute_command invocations
MaxCapCalls == 12     \* SpecQueueCap: REQUESTs that arrive

RequestIds == {"r1", "r2"}
Calls == 1..NumCalls
InstanceIds == {"A", "B"}
Tasks == 1..NumTasks

(***************************************************************************)
(* Dictionaries are functions with a changing domain.                      *)
(***************************************************************************)
Put(m, k, v) == [x \in DOMAIN m \cup {k} |-> IF x = k THEN v ELSE m[x]]

Del(m, ks) == [x \in DOMAIN m \ ks |-> m[x]]

EmptyMap == [x \in {} |-> 0]

(***************************************************************************)
(* Responses.  The payload is opaque to the cache; `data` tells responses  *)
(* of different executions apart.                                          *)
(***************************************************************************)
Resp(success, code, data) == [success |-> success, code |-> code, data |-> data]

NoResp == Resp(FALSE, "", 0)

\* the cache reads only `success`: one transient and one internal error code
\* stand for the error responses an abstract execute_fn returns
ErrorCodes == {"TIMEOUT", "INTERNAL_ERROR"}

(***************************************************************************)
(* Time.  ttl_seconds is 60; the sweeper sleeps ttl / 2 between sweeps,    *)
(* and the clock of the model advances in steps of that period.           *)
(***************************************************************************)
TTL_SECONDS == 60

SweepPeriod == TTL_SECONDS \div 2

Now == ticks * SweepPeriod

CacheEntry(resp) == [response |-> resp, created_at |-> Now]

is_expired(entry) == Now - entry.created_at > TTL_SECONDS


(***************************************************************************)
(* The instance registry (src/relay/instance_registry.py).                 *)
(*                                                                         *)
(* A UnityInstance object is known by its handle, its index in recs.       *)
(* `writer` is "open", "closing" (close() called, wait_closed() pending)   *)
(* or "none" (the field is None).  reloading_since is -1 for None.         *)
(***************************************************************************)
NoneId == "None"

\* src/relay/protocol.py InstanceStatus
Statuses == {"ready", "busy", "reloading", "disconnected"}

\* src/relay/server.py line 40
RELOAD_TIMEOUT_MS == 30000

\* src/relay/server.py line 39
HEARTBEAT_MAX_RETRIES == 3

\* src/relay/server.py lines 432-433
max_wait_ms == 10000

poll_interval_ms == 250

GracePeriods == {0, RELOAD_TIMEOUT_MS}

QUEUE_ENABLED == FALSE

QUEUE_MAX_SIZE == 10

(***************************************************************************)
(* Strings.  Instance ids, project names and queries are named by tokens;  *)
(* Text gives the characters of each, so that equality, endswith and       *)
(* startswith are computed on characters.  The ids are project paths; id   *)
(* "p" is a path without a separator.                                      *)
(***************************************************************************)
Text(s) ==
    CASE s = "A" -> <<"/", "u", "/", "p">>
      [] s = "B" -> <<"/", "v", "/", "p">>
      [] s = "C" -> <<"\\", "w", "\\", "p", "q">>
      [] s = "p" -> <<"p">>
      [] s = "q" -> <<"q">>
      [] s = "pq" -> <<"p", "q">>
      [] s = "u/p" -> <<"u", "/", "p">>
      [] OTHER -> <<>>

\* str.endswith, str.startswith
EndsWith(s, suffix) ==
    Len(suffix) <= Len(s) /\ SubSeq(s, Len(s) - Len(suffix) + 1, Len(s)) = suffix

StartsWith(s, prefix) ==
    Len(prefix) <= Len(s) /\ SubSeq(s, 1, Len(prefix)) = prefix

\* the project_name in the REGISTER frame of the agent of project id: the
\* name of the project's folder
ProjectName(id) ==
    CASE id = "A" -> "p"
      [] id = "B" -> "p"
      [] id = "C" -> "pq"
      [] OTHER -> id

NewInstance(id) ==
    [iid |-> id, project_name |-> ProjectName(id), status |-> "ready", writer |-> "open",
     reloading_since |-> -1, command_queue |-> <<>>, queue_enabled |-> QUEUE_ENABLED,
     capabilities |-> {}]

\* lines 68-70
is_connected(rec) == rec.writer = "open" /\ rec.status # "disconnected"

\* lines 103-111: UnityInstance.set_status
set_status(rec, status) ==
    [rec EXCEPT !.status = status,
                !.reloading_since = IF status = "reloading" THEN Now
                                    ELSE IF rec.status = "reloading" THEN -1 ELSE @]

\* lines 159-163: close_connection up to `await writer.wait_closed()`: the
\* queue is flushed and an open writer is closed
CloseBegin(rec) ==
    [rec EXCEPT !.command_queue = <<>>,
                !.writer = IF @ = "open" THEN "closing" ELSE @]

\* line 162: close_connection awaits only when it closed the writer itself
CloseSuspends(rec) == rec.writer = "open"

\* lines 168-170: close_connection after the await
CloseEnd(rec) == [rec EXCEPT !.writer = "none", !.status = "disconnected"]

\* the dictionary _instances keeps insertion order: a sequence of entries
InstHas(id) == \E i \in 1..Len(instances) : instances[i].id = id

InstGet(id) == (CHOOSE i \in 1..Len(instances) : instances[i].id = id)

InstRec(id) == instances[InstGet(id)].rec

InstSet(insts, id, h) ==
    IF \E i \in 1..Len(insts) : insts[i].id = id
    THEN [i \in 1..Len(insts) |-> IF insts[i].id = id THEN [id |-> id, rec |-> h] ELSE insts[i]]
    ELSE Append(insts, [id |-> id, rec |-> h])

InstPop(insts, id) == SelectSeq(insts, LAMBDA e : e.id # id)

ReelectNone(insts) == NoneId

\* lines 253-258, 320-325: next(iter(self._instances)) or None
Reelect(insts) == IF Len(insts) > 0 THEN insts[1].id ELSE NoneId

(***************************************************************************)
(* asyncio.Lock: `holder` is the task that holds it or that it has been    *)
(* handed to (0: free), `waiters` the FIFO of the tasks blocked in         *)
(* acquire().  Tasks are positive numbers, timer k is the number -k.       *)
(***************************************************************************)
LockFree == lock.holder = 0

\* acquire() by `me` on a lock that is free or was handed to `me`
Acquired(l, me) == [holder |-> me, waiters |-> l.waiters]

\* acquire() on a held lock: `me` joins the FIFO
Enqueued(l, me) == [holder |-> l.holder, waiters |-> Append(l.waiters, me)]

\* release(): the lock goes to the first waiter
Released(l) ==
    IF l.waiters = <<>> THEN [holder |-> 0, waiters |-> <<>>]
    ELSE [holder |-> Head(l.waiters), waiters |-> Tail(l.waiters)]

\* a cancelled waiter leaves the FIFO; a cancelled task that was handed the
\* lock passes it on
Dropped(l, me) ==
    IF l.holder = me THEN Released(l)
    ELSE [holder |-> l.holder, waiters |-> SelectSeq(l.waiters, LAMBDA w : w # me)]

(***************************************************************************)
(* Tasks calling the registry.  pc is where the task is suspended:         *)
(*   idle         not running                                              *)
(*   reg_lock     register: blocked on the lock (line 202)                 *)
(*   reg_close    register: in the takeover's close_connection (line 217)  *)
(*   unreg_lock   unregister: blocked on the lock (line 245)               *)
(*   unreg_close  unregister: in close_connection (line 250)               *)
(*   dg_close     disconnect_with_grace_period: in close_connection (293)  *)
(*   dg_lock      disconnect_with_grace_period: blocked on the lock (297)  *)
(*   ca_lock      close_all: blocked on the lock (line 443)                *)
(*   ca_close     close_all: in a close_connection (line 445)              *)
(*   loop         a connection handler reading frames (server.py line 200) *)
(* `inst` is the object register returned to a connection handler and      *)
(* `rec` the object the task is closing.  by_status remembers that the  *)
(* instance was RELOADING by its status field (line 285) rather than by    *)
(* the status file (line 287).                                             *)
(***************************************************************************)
IdleTask ==
    [pc |-> "idle", iid |-> "", inst |-> 0, rec |-> 0, restore |-> FALSE, was_default |-> FALSE,
     was_reloading |-> FALSE, by_status |-> FALSE, grace_ms |-> 0, via |-> "api"]

InitRegistryFor(via) ==
    /\ recs = <<>>
    /\ instances = <<>>
    /\ default_instance_id = NoneId
    /\ grace_period_tasks = EmptyMap
    /\ was_default = EmptyMap
    /\ timers = <<>>
    /\ lock = [holder |-> 0, waiters |-> <<>>]
    /\ tasks = [t \in Tasks |-> [IdleTask EXCEPT !.via = via]]

InitRegistry == InitRegistryFor("api")

\* a connection on which nothing was written or read: x is the payload given
\* to write_frame, hdr and body the bytes in the stream, wrote and read how
\* the calls ended, out what read_frame returned, taken the bytes it consumed
NoWire ==
    [x |-> [d |-> <<>>, pad |-> 0], hdr |-> <<>>, body |-> [head |-> <<>>, pad |-> 0, tail |-> <<>>],
     wrote |-> "none", read |-> "none", out |-> [d |-> <<>>, pad |-> 0], taken |-> 0]

\* the clock before any time has passed, in ms: `now` is the time,
\* last_heartbeat the field of the instance, read_from, slept_from and
\* ping_at when the handler's read, the heartbeat loop's sleep and its wait
\* for the PONG began, ping_timeout the timeout of that wait, and missed is
\* history: a PING was left without a PONG until its timeout
NoClock ==
    [now |-> 0, last_heartbeat |-> 0, read_from |-> 0, slept_from |-> 0,
     ping_at |-> 0, ping_timeout |-> 0, missed |-> FALSE]

\* RelayServer.__init__ (src/relay/server.py lines 60-66)
IdleReq ==
    [pc |-> "idle", target |-> NoneId, inst |-> 0, waited_ms |-> 0,
     future |-> "none", result |-> NoResp, written |-> FALSE]

InitServer ==
    /\ heartbeat_tasks = EmptyMap
    /\ heartbeats = EmptyMap
    /\ pending_commands = EmptyMap
    /\ reqs = [c \in Calls |-> IdleReq]
    /\ answered = EmptyMap
    /\ gap = {}
    /\ executions = <<>>
    /\ queue_log = [enqueued |-> <<>>, emitted |-> <<>>]
    /\ pending_pongs = EmptyMap
    /\ pong_events = EmptyMap
    /\ running = TRUE
    /\ wire = NoWire
    /\ clock = NoClock

(***************************************************************************)
(* Registry operations, as changes of the registry variables.              *)
(***************************************************************************)
SetRec(rs, h, rec) == [rs EXCEPT ![h] = rec]

\* A grace-period timer: pc is "sleep", "lock" (blocked on the lock, line 314),
\* "done" or "cancelled".  While it lives it remembers how it came about: wd
\* (the id was the default when disconnect_with_grace_period was called),
\* by_status (the instance was RELOADING by its status) and reg (register(id)
\* ran since).  A finished timer keeps only its id.
Finished(timer, pc) ==
    [iid |-> timer.iid, pc |-> pc, wd |-> FALSE, by_status |-> FALSE, reg |-> FALSE]

\* line 205, self._grace_period_tasks[instance_id].cancel(): the timer gets
\* CancelledError in its sleep or in its wait for the lock (lines 329-331)
CancelledAsSleeping(timer) == timer

Cancelled(timer) == Finished(timer, "cancelled")

\* what a task is after register / unregister returned to its caller
AfterRegister(t, id, h) ==
    IF tasks[t].via = "conn"
    THEN [IdleTask EXCEPT !.pc = "loop", !.iid = id, !.inst = h, !.via = "conn"]
    ELSE IdleTask

AfterUnregister(t) == [IdleTask EXCEPT !.via = tasks[t].via]

\* registrations running or done: each creates one UnityInstance
Registering == {t \in Tasks : tasks[t].pc \in {"reg_lock", "reg_close"}}

RegisterInstallAsDefault(t, id, restore, rs, l) ==
    LET h == Len(rs) + 1
    IN  /\ recs' = Append(rs, NewInstance(id))
        /\ instances' = InstSet(instances, id, h)
        /\ default_instance_id' = id
        /\ lock' = Released(l)
        /\ tasks' = [tasks EXCEPT ![t] = AfterRegister(t, id, h)]

\* lines 219-241: create the instance, install it, settle the default, release.
\* A connection handler that gets its instance while the server does not run
\* goes on without a suspension (server.py lines 185-198, 209-215): it does
\* not enter its loop, cancels the heartbeat task it has just filed and
\* calls unregister(id), which pops and closes the instance when the lock
\* is free and else waits for the lock.
RegisterInstall(t, id, restore, rs, l) ==
    LET h == Len(rs) + 1
        leaves == tasks[t].via = "conn" /\ ~running
        released == Released(l)
    IN  /\ default_instance_id' =
              IF restore THEN id
              ELSE IF default_instance_id = NoneId THEN id
              ELSE default_instance_id
        /\ IF ~leaves
           THEN /\ recs' = Append(rs, NewInstance(id))
                /\ instances' = InstSet(instances, id, h)
                /\ lock' = released
                /\ tasks' = [tasks EXCEPT ![t] = AfterRegister(t, id, h)]
           ELSE IF released.holder = 0
           THEN /\ recs' = Append(rs, CloseBegin(NewInstance(id)))
                /\ instances' = InstPop(instances, id)
                /\ lock' = Acquired(released, t)
                /\ tasks' = [tasks EXCEPT ![t] =
                                [@ EXCEPT !.pc = "unreg_close", !.iid = id, !.rec = h]]
           ELSE /\ recs' = Append(rs, NewInstance(id))
                /\ instances' = InstSet(instances, id, h)
                /\ lock' = Enqueued(released, t)
                /\ tasks' = [tasks EXCEPT ![t] = [@ EXCEPT !.pc = "unreg_lock", !.iid = id]]

\* lines 203-217: with the lock held, cancel the grace period of id, then take
\* over a live instance of id
RegisterLocked(t, id) ==
    LET graced == id \in DOMAIN grace_period_tasks
        k == grace_period_tasks[id]
        restore == IF graced /\ id \in DOMAIN was_default THEN was_default[id] ELSE FALSE
        l == IF graced THEN Dropped(lock, -k) ELSE lock
        old == InstRec(id)
    IN  /\ grace_period_tasks' = Del(grace_period_tasks, {id})
        /\ was_default' = IF graced THEN Del(was_default, {id}) ELSE was_default
        /\ timers' = [j \in DOMAIN timers |->
                         IF graced /\ j = k THEN Cancelled(timers[j])
                         ELSE IF timers[j].iid = id /\ timers[j].pc \in {"sleep", "lock"}
                         THEN [timers[j] EXCEPT !.reg = TRUE]
                         ELSE timers[j]]
        /\ IF InstHas(id) /\ CloseSuspends(recs[old])
           THEN /\ recs' = SetRec(recs, old, CloseBegin(recs[old]))
                /\ lock' = Acquired(l, t)
                /\ tasks' = [tasks EXCEPT ![t] =
                      [@ EXCEPT !.pc = "reg_close", !.iid = id, !.rec = old, !.restore = restore]]
                /\ UNCHANGED <<instances, default_instance_id>>
           ELSE IF InstHas(id)
           THEN RegisterInstall(t, id, restore, SetRec(recs, old, CloseEnd(CloseBegin(recs[old]))), l)
           ELSE RegisterInstall(t, id, restore, recs, l)

\* line 202: register(id) is called
RegisterCall(t, id) ==
    /\ tasks[t].pc = "idle"
    /\ IF LockFree
       THEN RegisterLocked(t, id)
       ELSE /\ lock' = Enqueued(lock, t)
            /\ tasks' = [tasks EXCEPT ![t] = [@ EXCEPT !.pc = "reg_lock", !.iid = id]]
            /\ UNCHANGED <<recs, instances, default_instance_id, grace_period_tasks,
                           was_default, timers>>

\* line 202: the lock is handed to a blocked register
RegisterGrantedCore(t) ==
    /\ tasks[t].pc = "reg_lock"
    /\ lock.holder = t
    /\ RegisterLocked(t, tasks[t].iid)

\* lines 217-241: wait_closed() of the old writer returned
RegisterResumeCore(t) ==
    /\ tasks[t].pc = "reg_close"
    /\ RegisterInstall(t, tasks[t].iid, tasks[t].restore,
                       SetRec(recs, tasks[t].rec, CloseEnd(recs[tasks[t].rec])), lock)
    /\ UNCHANGED <<grace_period_tasks, was_default, timers>>

\* lines 252-261: settle the default, release, return
UnregisterFinish(t, id, insts, rs, l) ==
    /\ recs' = rs
    /\ instances' = insts
    /\ default_instance_id' =
          IF default_instance_id = id THEN Reelect(insts) ELSE default_instance_id
    /\ lock' = Released(l)
    /\ tasks' = [tasks EXCEPT ![t] = AfterUnregister(t)]

\* lines 246-250: with the lock held, pop the instance and close it
UnregisterLocked(t, id, rs) ==
    LET h == InstRec(id)
    IN  /\ UNCHANGED <<grace_period_tasks, was_default, timers>>
        /\ IF ~InstHas(id)
           THEN /\ recs' = rs
                /\ lock' = Released(lock)
                /\ tasks' = [tasks EXCEPT ![t] = AfterUnregister(t)]
                /\ UNCHANGED <<instances, default_instance_id>>
           ELSE IF CloseSuspends(rs[h])
           THEN /\ recs' = SetRec(rs, h, CloseBegin(rs[h]))
                /\ instances' = InstPop(instances, id)
                /\ lock' = Acquired(lock, t)
                /\ tasks' = [tasks EXCEPT ![t] = [@ EXCEPT !.pc = "unreg_close", !.iid = id, !.rec = h]]
                /\ UNCHANGED default_instance_id
           ELSE UnregisterFinish(t, id, InstPop(instances, id),
                                 SetRec(rs, h, CloseEnd(CloseBegin(rs[h]))), lock)

\* line 245: unregister(id) is called, the objects being rs
UnregisterEnter(t, id, rs) ==
    IF LockFree
    THEN UnregisterLocked(t, id, rs)
    ELSE /\ recs' = rs
         /\ lock' = Enqueued(lock, t)
         /\ tasks' = [tasks EXCEPT ![t] = [@ EXCEPT !.pc = "unreg_lock", !.iid = id]]
         /\ UNCHANGED <<instances, default_instance_id, grace_period_tasks,
                        was_default, timers>>

UnregisterCall(t, id) ==
    /\ tasks[t].pc = "idle"
    /\ UnregisterEnter(t, id, recs)

\* line 245: the lock is handed to a blocked unregister
UnregisterGrantedCore(t) ==
    /\ tasks[t].pc = "unreg_lock"
    /\ lock.holder = t
    /\ UnregisterLocked(t, tasks[t].iid, recs)

\* lines 250-261: wait_closed() returned
UnregisterResumeCore(t) ==
    /\ tasks[t].pc = "unreg_close"
    /\ UnregisterFinish(t, tasks[t].iid, instances,
                        SetRec(recs, tasks[t].rec, CloseEnd(recs[tasks[t].rec])), lock)
    /\ UNCHANGED <<grace_period_tasks, was_default, timers>>

\* disconnect_with_grace_period calls on their way to a grace period
Gracing == {t \in Tasks : /\ tasks[t].pc \in {"dg_close", "dg_lock"}
                          /\ tasks[t].was_reloading
                          /\ tasks[t].grace_ms > 0}

\* lines 297-334: with the lock held, drop the entry of id, remember whether
\* it was the default, release, start the timer and track it
GraceLocked(t, id, wd, by_status, rs) ==
    /\ recs' = rs
    /\ instances' = InstPop(instances, id)
    /\ was_default' = Put(was_default, id, wd)
    /\ lock' = Released(lock)
    /\ timers' = Append(timers, [iid |-> id, pc |-> "sleep", wd |-> wd,
                                 by_status |-> by_status, reg |-> FALSE])
    /\ grace_period_tasks' = Put(grace_period_tasks, id, Len(timers) + 1)
    /\ tasks' = [tasks EXCEPT ![t] = IdleTask]
    /\ UNCHANGED default_instance_id

\* lines 295-337: after close_connection, enter the grace period or unregister
DisconnectClosed(t, id, reloading, by_status, wd, grace, rs) ==
    IF reloading /\ grace > 0
    THEN IF LockFree
         THEN GraceLocked(t, id, wd, by_status, rs)
         ELSE /\ recs' = rs
              /\ lock' = Enqueued(lock, t)
              /\ tasks' = [tasks EXCEPT ![t] =
                    [@ EXCEPT !.pc = "dg_lock", !.iid = id, !.was_default = wd,
                              !.was_reloading = reloading, !.by_status = by_status,
                              !.grace_ms = grace]]
              /\ UNCHANGED <<instances, default_instance_id, grace_period_tasks,
                             was_default, timers>>
    ELSE UnregisterEnter(t, id, rs)

\* lines 281-293: disconnect_with_grace_period(id, grace) is called on a live
\* id; `file_says` is what is_instance_reloading(id) answers
DisconnectCall(t, id, grace, file_says) ==
    LET h == InstRec(id)
        by_status == recs[h].status = "reloading"
        reloading == by_status \/ file_says
        wd == default_instance_id = id
    IN  /\ tasks[t].pc = "idle"
        /\ InstHas(id)
        /\ (reloading /\ grace > 0) => Len(timers) + Cardinality(Gracing) < MaxTimers
        /\ IF CloseSuspends(recs[h])
           THEN /\ recs' = SetRec(recs, h, CloseBegin(recs[h]))
                /\ tasks' = [tasks EXCEPT ![t] =
                      [@ EXCEPT !.pc = "dg_close", !.iid = id, !.rec = h, !.was_default = wd,
                                !.was_reloading = reloading, !.by_status = by_status,
                                !.grace_ms = grace]]
                /\ UNCHANGED <<instances, default_instance_id, grace_period_tasks,
                               was_default, timers, lock>>
           ELSE DisconnectClosed(t, id, reloading, by_status, wd, grace,
                                 SetRec(recs, h, CloseEnd(CloseBegin(recs[h]))))

\* lines 293-337: wait_closed() returned
DisconnectResumeCore(t) ==
    /\ tasks[t].pc = "dg_close"
    /\ DisconnectClosed(t, tasks[t].iid, tasks[t].was_reloading, tasks[t].by_status,
                        tasks[t].was_default, tasks[t].grace_ms,
                        SetRec(recs, tasks[t].rec, CloseEnd(recs[tasks[t].rec])))

\* line 297: the lock is handed to a blocked disconnect_with_grace_period
DisconnectGrantedCore(t) ==
    /\ tasks[t].pc = "dg_lock"
    /\ lock.holder = t
    /\ GraceLocked(t, tasks[t].iid, tasks[t].was_default, tasks[t].by_status, recs)

\* lines 314-328: the body of the timer, with the lock held
TimerLocked(k) ==
    LET id == timers[k].iid
        was_default_expired == IF id \in DOMAIN was_default THEN was_default[id] ELSE FALSE
    IN  /\ grace_period_tasks' = Del(grace_period_tasks, {id})
        /\ was_default' = Del(was_default, {id})
        /\ default_instance_id' =
              IF was_default_expired /\ default_instance_id = id
              THEN Reelect(instances) ELSE default_instance_id
        /\ lock' = Released(lock)
        /\ timers' = [timers EXCEPT ![k] = Finished(timers[k], "done")]
        /\ UNCHANGED <<recs, instances, tasks>>

\* lines 312-314: the sleep of timer k is over
TimerExpireCore(k) ==
    /\ timers[k].pc = "sleep"
    /\ IF LockFree
       THEN TimerLocked(k)
       ELSE /\ lock' = Enqueued(lock, -k)
            /\ timers' = [timers EXCEPT ![k].pc = "lock"]
            /\ UNCHANGED <<recs, instances, default_instance_id, grace_period_tasks,
                           was_default, tasks>>

\* line 314: the lock is handed to timer k
TimerGrantedCore(k) ==
    /\ timers[k].pc = "lock"
    /\ lock.holder = -k
    /\ TimerLocked(k)

\* lines 444-445: close_all walks _instances in insertion order from position
\* i, closing each instance, until a close_connection suspends (`at` is its
\* position) or the walk is over (`at` is 0)
RECURSIVE CloseRun(_, _)
CloseRun(rs, i) ==
    IF i > Len(instances) THEN [recs |-> rs, at |-> 0]
    ELSE LET h == instances[i].rec
         IN  IF CloseSuspends(rs[h])
             THEN [recs |-> SetRec(rs, h, CloseBegin(rs[h])), at |-> i]
             ELSE CloseRun(SetRec(rs, h, CloseEnd(CloseBegin(rs[h]))), i + 1)

\* lines 444-448: with the lock held, close the instances from position i on,
\* then clear the table and the default and release
CloseAllLocked(t, rs, i) ==
    LET run == CloseRun(rs, i)
    IN  /\ recs' = run.recs
        /\ UNCHANGED <<grace_period_tasks, was_default, timers>>
        /\ IF run.at = 0
           THEN /\ instances' = <<>>
                /\ default_instance_id' = NoneId
                /\ lock' = Released(lock)
                /\ tasks' = [tasks EXCEPT ![t] = AfterUnregister(t)]
           ELSE /\ lock' = Acquired(lock, t)
                /\ tasks' = [tasks EXCEPT ![t] =
                      [@ EXCEPT !.pc = "ca_close", !.iid = instances[run.at].id,
                                !.rec = instances[run.at].rec]]
                /\ UNCHANGED <<instances, default_instance_id>>

\* line 443: close_all() is called
CloseAllCall(t) ==
    /\ tasks[t].pc = "idle"
    /\ IF LockFree
       THEN CloseAllLocked(t, recs, 1)
       ELSE /\ lock' = Enqueued(lock, t)
            /\ tasks' = [tasks EXCEPT ![t] = [@ EXCEPT !.pc = "ca_lock"]]
            /\ UNCHANGED <<recs, instances, default_instance_id, grace_period_tasks,
                           was_default, timers>>

\* line 443: the lock is handed to a blocked close_all
CloseAllGrantedCore(t) ==
    /\ tasks[t].pc = "ca_lock"
    /\ lock.holder = t
    /\ CloseAllLocked(t, recs, 1)

\* lines 445-448: wait_closed() returned, the walk goes on
CloseAllResumeCore(t) ==
    /\ tasks[t].pc = "ca_close"
    /\ CloseAllLocked(t, SetRec(recs, tasks[t].rec, CloseEnd(recs[tasks[t].rec])),
                      InstGet(tasks[t].iid) + 1)

\* lines 349-355
SetDefaultCore(id) ==
    /\ InstHas(id)
    /\ default_instance_id' = id
    /\ UNCHANGED <<recs, instances, grace_period_tasks, was_default, timers, lock, tasks>>

\* lines 357-363
UpdateStatusCore(id, status) ==
    /\ InstHas(id)
    /\ recs' = SetRec(recs, InstRec(id), set_status(recs[InstRec(id)], status))
    /\ UNCHANGED <<instances, default_instance_id, grace_period_tasks, was_default,
                   timers, lock, tasks>>

(***************************************************************************)
(* handle_request invocations.  pc is where the task is suspended:         *)
(*   idle   not running                                                    *)
(*   exec   inside `await execute_fn()` (line 126)                         *)
(*   wait   inside `await event.wait()` (line 110)                         *)
(* Executions are numbered; the Event installed for execution n is Event   *)
(* n.  `exec` is the execution a call owns and `event` the Event a waiter  *)
(* holds.  Event.set() wakes the tasks waiting on it: `woken` marks them,  *)
(* and `sig` and `expect` keep, for the properties, how the execution they *)
(* joined ended ("ok", "err" with a response, "raise" without).            *)
(***************************************************************************)
IdleCall ==
    [pc |-> "idle", rid |-> "", event |-> 0, exec |-> 0,
     woken |-> FALSE, sig |-> "", expect |-> NoResp]

\* how a handle_request ended: `how` is "hit", "exec" or "waiter", `end` is
\* "returned" (with ret) or "raised" (with err); for a waiter, `sig` is how
\* the execution it joined ended and `same` whether ret is that execution's
\* response
Ended(how, call, end, ret, err) ==
    [how |-> how, rid |-> call.rid, end |-> end, ret |-> ret, err |-> err,
     sig |-> call.sig, same |-> (end = "returned" /\ ret = call.expect)]

NothingEnded == Ended("none", IdleCall, "", NoResp, "")

\* no handle_request ends in this step
NoCallEnds == last' = NothingEnded

CacheHitNever(r) == FALSE

\* lines 97-99: a non-expired entry is a cache hit
CacheHit(r) == r \in DOMAIN cache /\ ~is_expired(cache[r])

InFlightNever(r) == FALSE

\* lines 104, 109: the id has an in-flight Event
InFlight(r) == r \in DOMAIN pending

CacheableAlways(resp) == TRUE

\* line 130: only a response that says success is stored
Cacheable(resp) == resp.success

\* lines 129-131: what a normal return of execute_fn stores
StoreCache(r, resp) == IF Cacheable(resp) THEN Put(cache, r, CacheEntry(resp)) ELSE cache

\* lines 146-149: Event.set() on the Event now in _pending[r] wakes its waiters
SignalWaiters(cs, r, sig, resp) ==
    [c \in DOMAIN cs |->
        IF cs[c].pc = "wait" /\ r \in DOMAIN pending /\ cs[c].event = pending[r]
        THEN [cs[c] EXCEPT !.woken = TRUE, !.sig = sig, !.expect = resp]
        ELSE cs[c]]

\* lines 111-118: what a woken waiter finds: a handed-over result, else a
\* cache entry, else nothing
WaiterFinds(r) ==
    IF r \in DOMAIN pending_results THEN "result"
    ELSE IF r \in DOMAIN cache THEN "cached"
    ELSE "nothing"

InitCache ==
    /\ ticks = 0
    /\ cache = EmptyMap
    /\ pending = EmptyMap
    /\ pending_results = EmptyMap
    /\ calls = [c \in Calls |-> IdleCall]
    /\ nexec = 0
    /\ last = NothingEnded

\* the state after construction, the registry being called directly
Init == InitCache /\ InitRegistry /\ InitServer

\* the state after RelayServer.__init__, the registry being called by
\* connection handlers
InitRelay == InitCache /\ InitRegistryFor("conn") /\ InitServer

\* lines 96-101: cache hit
HandleRequestHit(c, r) ==
    /\ calls[c].pc = "idle"
    /\ CacheHit(r)
    /\ last' = Ended("hit", [IdleCall EXCEPT !.rid = r], "returned", cache[r].response, "")
    /\ UNCHANGED <<ticks, cache, pending, pending_results, calls, nexec>>
    /\ UNCHANGED <<regVars, srvVars>>

\* lines 96-110: no hit, the id is in flight: wait on its Event
HandleRequestJoin(c, r) ==
    /\ calls[c].pc = "idle"
    /\ ~CacheHit(r)
    /\ InFlight(r)
    /\ calls' = [calls EXCEPT ![c] = [IdleCall EXCEPT !.pc = "wait", !.rid = r, !.event = pending[r]]]
    /\ NoCallEnds
    /\ UNCHANGED <<ticks, cache, pending, pending_results, nexec>>
    /\ UNCHANGED <<regVars, srvVars>>

\* lines 96-126: no hit, not in flight: install an Event and call execute_fn
StartExecution(c, r) ==
    /\ calls[c].pc = "idle"
    /\ ~CacheHit(r)
    /\ ~InFlight(r)
    /\ nexec < MaxExec
    /\ nexec' = nexec + 1
    /\ pending' = Put(pending, r, nexec + 1)
    /\ calls' = [calls EXCEPT ![c] = [IdleCall EXCEPT !.pc = "exec", !.rid = r, !.exec = nexec + 1]]
    /\ NoCallEnds
    /\ UNCHANGED <<ticks, cache, pending_results>>

\* lines 126-149: execute_fn returned `resp`
FinishReturn(c, resp) ==
    LET r == calls[c].rid
    IN  /\ calls[c].pc = "exec"
        /\ cache' = StoreCache(r, resp)
        /\ pending_results' = Put(pending_results, r, resp)
        /\ pending' = Del(pending, {r})
        /\ calls' = [SignalWaiters(calls, r, IF resp.success THEN "ok" ELSE "err", resp)
                        EXCEPT ![c] = IdleCall]
        /\ last' = Ended("exec", calls[c], "returned", resp, "")
        /\ UNCHANGED <<ticks, nexec>>

\* lines 96-149 when execute_fn returns `resp` without suspending: the Event
\* comes and goes within the step
ExecuteAtOnce(c, r, resp) ==
    /\ calls[c].pc = "idle"
    /\ ~CacheHit(r)
    /\ ~InFlight(r)
    /\ nexec < MaxExec
    /\ nexec' = nexec + 1
    /\ cache' = StoreCache(r, resp)
    /\ pending_results' = Put(pending_results, r, resp)
    /\ last' = Ended("exec", [IdleCall EXCEPT !.rid = r, !.exec = nexec + 1], "returned", resp, "")
    /\ UNCHANGED <<ticks, pending, calls>>

\* lines 96-126, 144-149 when execute_fn raises without suspending: the
\* Event comes and goes within the step
ExecuteRaisesAtOnce(c, r) ==
    /\ calls[c].pc = "idle"
    /\ ~CacheHit(r)
    /\ ~InFlight(r)
    /\ nexec < MaxExec
    /\ nexec' = nexec + 1
    /\ last' = Ended("exec", [IdleCall EXCEPT !.rid = r, !.exec = nexec + 1], "raised", NoResp, "ExecuteError")
    /\ UNCHANGED <<ticks, cache, pending, pending_results, calls>>

\* lines 126, 144-149: execute_fn raised
FinishRaise(c) ==
    LET r == calls[c].rid
    IN  /\ calls[c].pc = "exec"
        /\ pending' = Del(pending, {r})
        /\ calls' = [SignalWaiters(calls, r, "raise", NoResp) EXCEPT ![c] = IdleCall]
        /\ last' = Ended("exec", calls[c], "raised", NoResp, "ExecuteError")
        /\ UNCHANGED <<ticks, cache, pending_results, nexec>>

\* lines 110-118: a woken waiter runs on
WaiterResume(c) ==
    LET r == calls[c].rid
        found == WaiterFinds(r)
    IN  /\ calls[c].pc = "wait"
        /\ calls[c].woken
        /\ pending_results' = Del(pending_results, {r})
        /\ calls' = [calls EXCEPT ![c] = IdleCall]
        /\ last' = CASE found = "result" -> Ended("waiter", calls[c], "returned", pending_results[r], "")
                     [] found = "cached" -> Ended("waiter", calls[c], "returned", cache[r].response, "")
                     [] OTHER -> Ended("waiter", calls[c], "raised", NoResp, "RuntimeError")
        /\ UNCHANGED <<ticks, cache, pending, nexec>>
        /\ UNCHANGED <<regVars, srvVars>>

\* lines 69-78: the sweeper removes the expired entries
CleanupExpired ==
    /\ cache' = Del(cache, {k \in DOMAIN cache : is_expired(cache[k])})
    /\ NoCallEnds
    /\ UNCHANGED <<ticks, pending, pending_results, calls, nexec>>
    /\ UNCHANGED <<regVars, srvVars>>

\* time passes
Tick ==
    /\ ticks < MaxTicks
    /\ ticks' = ticks + 1
    /\ NoCallEnds
    /\ UNCHANGED <<cache, pending, pending_results, calls, nexec>>
    /\ UNCHANGED <<regVars, srvVars>>

\* what an abstract execute_fn may return in execution n
ExecuteOutcomes(n) == {Resp(TRUE, "", n)} \cup {Resp(FALSE, e, n) : e \in ErrorCodes}

\* handle_request around an abstract execute_fn
HandleRequestExecute(c, r) == StartExecution(c, r) /\ UNCHANGED <<regVars, srvVars>>

ExecuteReturns(c, resp) == FinishReturn(c, resp) /\ UNCHANGED <<regVars, srvVars>>

ExecuteRaises(c) == FinishRaise(c) /\ UNCHANGED <<regVars, srvVars>>

NextCache ==
    \/ \E c \in Calls, r \in RequestIds : HandleRequestHit(c, r)
    \/ \E c \in Calls, r \in RequestIds : HandleRequestJoin(c, r)
    \/ \E c \in Calls, r \in RequestIds : HandleRequestExecute(c, r)
    \/ \E c \in Calls : \E resp \in ExecuteOutcomes(calls[c].exec) : ExecuteReturns(c, resp)
    \/ \E c \in Calls : ExecuteRaises(c)
    \/ \E c \in Calls : WaiterResume(c)
    \/ CleanupExpired
    \/ Tick

SpecCache == Init /\ [][NextCache]_vars

(***************************************************************************)
(* The relay server (src/relay/server.py).                                 *)
(*                                                                         *)
(* A task is the handler of an agent's connection; a call is the handler   *)
(* of a client's REQUEST.  reqs[c] is the _execute_command of call c: pc   *)
(* is "poll" (asleep in the wait loop, lines 451-466) or "sent" (waiting   *)
(* for the Future, line 565), `inst` the object it dispatched to, `future` *)
(* "pending" or "done" (with `result`) and `written` whether the COMMAND   *)
(* went into an open writer.                                               *)
(***************************************************************************)
RelayCalls == 1..NumRelayCalls

Targets == InstanceIds \cup {NoneId}

AgentData == 1..NumData

Error(code) == Resp(FALSE, code, 0)

\* what one modelled sleep of the wait loop adds to waited_ms
PollStep == PollSpan * poll_interval_ms

\* src/relay/instance_registry.py lines 343-347
get_default ==
    IF default_instance_id # NoneId /\ InstHas(default_instance_id)
    THEN InstRec(default_instance_id) ELSE 0

\* AmbiguousInstanceError is raised
Ambiguous == -1

DecideFirst(matches, next) == IF Len(matches) >= 1 THEN matches[1].rec ELSE next

\* src/relay/instance_registry.py lines 392-396, 404-407, 411-414: one match
\* is returned, several raise, none goes on to the next stage
Decide(matches, next) ==
    IF Len(matches) = 1 THEN matches[1].rec
    ELSE IF Len(matches) > 1 THEN Ambiguous
    ELSE next

\* src/relay/instance_registry.py lines 372-416: _resolve_instance; 0 is None
resolve_instance(query) ==
    LET q == Text(query)
        name_matches ==
            SelectSeq(instances, LAMBDA e : Text(recs[e.rec].project_name) = q)
        suffix_matches ==
            SelectSeq(instances, LAMBDA e : \/ EndsWith(Text(recs[e.rec].iid), <<"/">> \o q)
                                           \/ EndsWith(Text(recs[e.rec].iid), <<"\\">> \o q))
        prefix_matches ==
            SelectSeq(instances, LAMBDA e : StartsWith(Text(recs[e.rec].project_name), q))
    IN  IF InstHas(query) THEN InstRec(query)
        ELSE Decide(name_matches, Decide(suffix_matches, Decide(prefix_matches, 0)))

\* src/relay/instance_registry.py lines 418-429: a query that is None or
\* empty asks for the default; 0 is None, Ambiguous a raise
get_instance_for_request(target) ==
    IF target # NoneId /\ Text(target) # <<>>
    THEN resolve_instance(target)
    ELSE get_default

\* lines 436-471: one turn of the wait loop
WaitLoop(target, waited_ms) ==
    LET h == get_instance_for_request(target)
    IN  IF ~(waited_ms < max_wait_ms) THEN "go"
        ELSE IF h = Ambiguous THEN "raise"
        ELSE IF h = 0 THEN IF target # NoneId THEN "not_found" ELSE "sleep"
        ELSE IF recs[h].status = "reloading" THEN "sleep"
        ELSE IF recs[h].status = "disconnected" \/ ~is_connected(recs[h]) THEN "sleep"
        ELSE "go"

\* the command a REQUEST names: a request id stands for one REQUEST frame,
\* r2 asks for command "d" and the others for command "c"
Command(r) == IF r = "r2" THEN "d" ELSE "c"

SupportsAlways(rec, command) == TRUE

\* line 483: an instance with an empty capability list takes every command
Supports(rec, command) == rec.capabilities = {} \/ command \in rec.capabilities

RecheckIgnoringBusy(target, command) ==
    LET h == get_instance_for_request(target)
    IN  IF h = Ambiguous THEN "raise"
        ELSE IF h = 0 THEN "INSTANCE_NOT_FOUND"
        ELSE IF ~Supports(recs[h], command) THEN "CAPABILITY_NOT_SUPPORTED"
        ELSE IF recs[h].status = "reloading" THEN "INSTANCE_RELOADING"
        ELSE ""

\* lines 474-543: the checks after the loop: an error code, or "" to dispatch.
\* queue_enabled is False in every instance, so lines 503-536 do not apply.
Recheck(target, command) ==
    LET h == get_instance_for_request(target)
    IN  IF h = Ambiguous THEN "raise"
        ELSE IF h = 0 THEN "INSTANCE_NOT_FOUND"
        ELSE IF ~Supports(recs[h], command) THEN "CAPABILITY_NOT_SUPPORTED"
        ELSE IF recs[h].status = "reloading" THEN "INSTANCE_RELOADING"
        ELSE IF recs[h].status = "busy" THEN "INSTANCE_BUSY"
        ELSE ""

\* lines 436-562: what _execute_command does when it runs from the top of the
\* loop: sleep, let the AmbiguousInstanceError of the lookup (lines 438, 474)
\* pass ("raise"), return an error, or dispatch to h, where the write of the
\* COMMAND succeeds ("send"), goes into a closing writer ("lost") or raises
\* because the writer is None ("fail")
Outcome(target, waited_ms, command) ==
    LET w == WaitLoop(target, waited_ms)
        h == get_instance_for_request(target)
    IN  IF w = "sleep" THEN [kind |-> "sleep", code |-> "", h |-> 0]
        ELSE IF w = "raise" \/ (w = "go" /\ Recheck(target, command) = "raise")
        THEN [kind |-> "raise", code |-> "", h |-> 0]
        ELSE IF w = "not_found" THEN [kind |-> "error", code |-> "INSTANCE_NOT_FOUND", h |-> 0]
        ELSE IF Recheck(target, command) # ""
        THEN [kind |-> "error", code |-> Recheck(target, command), h |-> 0]
        ELSE [kind |-> CASE recs[h].writer = "open" -> "send"
                         [] recs[h].writer = "closing" -> "lost"
                         [] OTHER -> "fail",
              code |-> "", h |-> h]

\* lines 553-565: the Future is filed, the instance is BUSY, the COMMAND is
\* written and the call waits
Dispatch(c, r, target, waited_ms, o) ==
    /\ pending_commands' = Put(pending_commands, r, c)
    /\ recs' = SetRec(recs, o.h, set_status(recs[o.h], "busy"))
    /\ reqs' = [reqs EXCEPT ![c] =
          [pc |-> "sent", target |-> target, inst |-> o.h, waited_ms |-> waited_ms,
           future |-> "pending", result |-> NoResp, written |-> (o.kind = "send")]]

\* lines 591-600: BUSY goes back to READY, the Future is unfiled; the queue
\* is empty
Finally(c, rs) ==
    LET h == reqs[c].inst
    IN  /\ recs' = IF rs[h].status = "busy" THEN SetRec(rs, h, set_status(rs[h], "ready")) ELSE rs
        /\ pending_commands' = Del(pending_commands, {calls[c].rid})
        /\ reqs' = [reqs EXCEPT ![c] = IdleReq]

\* lines 408-420, 96-126, 436-565: a REQUEST that is neither cached nor in
\* flight runs _execute_command up to its first suspension
RequestExecute(c, r, target) ==
    LET o == Outcome(target, 0, Command(r))
    IN  CASE o.kind = "sleep" ->
               /\ StartExecution(c, r)
               /\ reqs' = [reqs EXCEPT ![c] = [IdleReq EXCEPT !.pc = "poll", !.target = target,
                                                              !.waited_ms = PollStep]]
               /\ UNCHANGED <<regVars, heartbeat_tasks, running, wire, clock, heartbeats, pending_pongs, pong_events, pending_commands, answered, gap,
                   executions, queue_log>>
          [] o.kind = "error" ->
               /\ ExecuteAtOnce(c, r, Error(o.code))
               /\ UNCHANGED <<regVars, srvVars>>
          [] o.kind = "raise" ->
               /\ ExecuteRaisesAtOnce(c, r)
               /\ UNCHANGED <<regVars, srvVars>>
          [] OTHER ->
               /\ StartExecution(c, r)
               /\ Dispatch(c, r, target, 0, o)
               /\ UNCHANGED <<instances, default_instance_id, grace_period_tasks, was_default,
                              timers, lock, tasks, heartbeat_tasks, running, wire, clock, heartbeats, pending_pongs, pong_events, answered, gap,
                   executions, queue_log>>

\* lines 451-565: a sleep of the wait loop is over
PollWake(c) ==
    LET r == calls[c].rid
        o == Outcome(reqs[c].target, reqs[c].waited_ms, Command(r))
        busy == SetRec(recs, o.h, set_status(recs[o.h], "busy"))
    IN  /\ reqs[c].pc = "poll"
        /\ UNCHANGED <<instances, default_instance_id, grace_period_tasks, was_default,
                       timers, lock, tasks, heartbeat_tasks, running, wire, clock, heartbeats, pending_pongs, pong_events, answered, gap,
                   executions, queue_log>>
        /\ CASE o.kind = "sleep" ->
                  /\ reqs' = [reqs EXCEPT ![c].waited_ms = @ + PollStep]
                  /\ NoCallEnds /\ UNCHANGED <<cacheState, recs, pending_commands>>
             [] o.kind = "error" ->
                  /\ FinishReturn(c, Error(o.code))
                  /\ reqs' = [reqs EXCEPT ![c] = IdleReq]
                  /\ UNCHANGED <<recs, pending_commands>>
             [] o.kind = "raise" ->
                  /\ FinishRaise(c)
                  /\ reqs' = [reqs EXCEPT ![c] = IdleReq]
                  /\ UNCHANGED <<recs, pending_commands>>
             [] o.kind = "fail" ->
                  /\ FinishReturn(c, Error("INTERNAL_ERROR"))
                  /\ recs' = SetRec(busy, o.h, set_status(busy[o.h], "ready"))
                  /\ pending_commands' = Del(pending_commands, {r})
                  /\ reqs' = [reqs EXCEPT ![c] = IdleReq]
             [] OTHER ->
                  /\ Dispatch(c, r, reqs[c].target, reqs[c].waited_ms, o)
                  /\ NoCallEnds /\ UNCHANGED cacheState

\* what ends a dispatched _execute_command, lines 565-600, and with it the
\* handle_request around it
ExecEnds(c, resp) ==
    /\ FinishReturn(c, resp)
    /\ Finally(c, recs)
    /\ answered' = IF resp.success THEN Put(answered, calls[c].rid, [resp |-> resp, at |-> Now])
                   ELSE answered
    /\ UNCHANGED <<instances, default_instance_id, grace_period_tasks, was_default,
                   timers, lock, tasks, heartbeat_tasks, running, wire, clock, heartbeats, pending_pongs, pong_events, gap,
                   executions, queue_log>>

\* lines 565-575: the Future has its result
ExecResult(c) ==
    /\ reqs[c].pc = "sent"
    /\ reqs[c].future = "done"
    /\ ExecEnds(c, Resp(reqs[c].result.success, "", reqs[c].result.data))

\* lines 577-582: wait_for times out
ExecTimeout(c) ==
    /\ reqs[c].pc = "sent"
    /\ reqs[c].future = "pending"
    /\ ExecEnds(c, Error("TIMEOUT"))

(***************************************************************************)
(* The registry on its own: tasks call its operations in any order.        *)
(***************************************************************************)
Register(t, id) ==
    /\ Len(recs) + Cardinality(Registering) < MaxRecs
    /\ RegisterCall(t, id)
    /\ NoCallEnds /\ UNCHANGED <<cacheState, srvVars>>

RegisterGranted(t) == RegisterGrantedCore(t) /\ NoCallEnds /\ UNCHANGED <<cacheState, srvVars>>

RegisterResume(t) == RegisterResumeCore(t) /\ NoCallEnds /\ UNCHANGED <<cacheState, srvVars>>

Unregister(t, id) == UnregisterCall(t, id) /\ NoCallEnds /\ UNCHANGED <<cacheState, srvVars>>

UnregisterGranted(t) == UnregisterGrantedCore(t) /\ NoCallEnds /\ UNCHANGED <<cacheState, srvVars>>

UnregisterResume(t) == UnregisterResumeCore(t) /\ NoCallEnds /\ UNCHANGED <<cacheState, srvVars>>

DisconnectWithGracePeriod(t, id, grace, file_says) ==
    DisconnectCall(t, id, grace, file_says) /\ NoCallEnds /\ UNCHANGED <<cacheState, srvVars>>

DisconnectResume(t) == DisconnectResumeCore(t) /\ NoCallEnds /\ UNCHANGED <<cacheState, srvVars>>

DisconnectGranted(t) == DisconnectGrantedCore(t) /\ NoCallEnds /\ UNCHANGED <<cacheState, srvVars>>

TimerExpire(k) == TimerExpireCore(k) /\ NoCallEnds /\ UNCHANGED <<cacheState, srvVars>>

TimerGranted(k) == TimerGrantedCore(k) /\ NoCallEnds /\ UNCHANGED <<cacheState, srvVars>>

CloseAll(t) == CloseAllCall(t) /\ NoCallEnds /\ UNCHANGED <<cacheState, srvVars>>

CloseAllGranted(t) == CloseAllGrantedCore(t) /\ NoCallEnds /\ UNCHANGED <<cacheState, srvVars>>

CloseAllResume(t) == CloseAllResumeCore(t) /\ NoCallEnds /\ UNCHANGED <<cacheState, srvVars>>

SetDefault(id) == SetDefaultCore(id) /\ NoCallEnds /\ UNCHANGED <<cacheState, srvVars>>

UpdateStatus(id, status) == UpdateStatusCore(id, status) /\ NoCallEnds /\ UNCHANGED <<cacheState, srvVars>>

NextRegistry ==
    \/ \E t \in Tasks, id \in InstanceIds : Register(t, id)
    \/ \E t \in Tasks : RegisterGranted(t)
    \/ \E t \in Tasks : RegisterResume(t)
    \/ \E t \in Tasks, id \in InstanceIds : Unregister(t, id)
    \/ \E t \in Tasks : UnregisterGranted(t)
    \/ \E t \in Tasks : UnregisterResume(t)
    \/ \E t \in Tasks, id \in InstanceIds, grace \in GracePeriods, file_says \in BOOLEAN :
          DisconnectWithGracePeriod(t, id, grace, file_says)
    \/ \E t \in Tasks : DisconnectResume(t)
    \/ \E t \in Tasks : DisconnectGranted(t)
    \/ \E k \in DOMAIN timers : TimerExpire(k)
    \/ \E k \in DOMAIN timers : TimerGranted(k)
    \/ \E id \in InstanceIds : SetDefault(id)
    \/ \E id \in InstanceIds, status \in Statuses : UpdateStatus(id, status)
    \/ \E t \in Tasks : CloseAll(t)
    \/ \E t \in Tasks : CloseAllGranted(t)
    \/ \E t \in Tasks : CloseAllResume(t)

SpecRegistry == Init /\ [][NextRegistry]_vars

\* lines 185-194, when register has returned in this step: REGISTERED is
\* written, the heartbeat task is started and filed under the id
Registered(t) ==
    IF tasks'[t].pc = "loop"
    THEN /\ heartbeat_tasks' = Put(heartbeat_tasks, tasks'[t].iid, tasks'[t].inst)
         /\ heartbeats' = Put(heartbeats, tasks'[t].inst, 0)
         /\ gap' = gap \ {tasks'[t].iid}
         /\ UNCHANGED <<pending_pongs, pong_events, running, wire, clock>>
    ELSE UNCHANGED <<heartbeat_tasks, running, wire, clock, heartbeats, pending_pongs, pong_events, gap>>

\* lines 154-200: a connection whose first frame is REGISTER for id
HandleUnityConnection(t, id) ==
    /\ RegisterCall(t, id)
    /\ Registered(t)
    /\ NoCallEnds /\ UNCHANGED <<cacheState, pending_commands, reqs, answered,
                   executions, queue_log>>

\* agent connections accepted so far
Accepted == Len(recs) + Cardinality(Registering)

\* src/relay/protocol.py: the version the relay speaks
PROTOCOL_VERSION == "1.0"

\* the protocol_version of a REGISTER frame; "" when the frame has none
Versions == {"1.0", "2.0", ""}

VersionAcceptedAlways(version) == TRUE

\* line 163
VersionAccepted(version) == version = PROTOCOL_VERSION

\* lines 154-200: the handler of a connection whose first frame is REGISTER:
\* another version is answered with REGISTERED success=False, error code
\* PROTOCOL_VERSION_MISMATCH, and the handler returns (lines 163-172)
RegisterFrame(t, id, version) ==
    IF VersionAccepted(version)
    THEN Accepted < MaxConns /\ HandleUnityConnection(t, id)
    ELSE /\ tasks[t].pc = "idle"
         /\ last' = Ended("register", IdleCall, "returned", Error("PROTOCOL_VERSION_MISMATCH"), "")
         /\ UNCHANGED <<cacheState, regVars, srvVars>>

\* lines 176-200: the register of a connection gets the lock
ConnectionGranted(t) ==
    /\ RegisterGrantedCore(t)
    /\ Registered(t)
    /\ NoCallEnds /\ UNCHANGED <<cacheState, pending_commands, reqs, answered,
                   executions, queue_log>>

\* lines 176-200: the register of a connection is through with the takeover
ConnectionResumes(t) ==
    /\ RegisterResumeCore(t)
    /\ Registered(t)
    /\ NoCallEnds /\ UNCHANGED <<cacheState, pending_commands, reqs, answered,
                   executions, queue_log>>

\* lines 209-215: the handler leaves the loop: the heartbeat task filed under
\* the id is cancelled and unregister(id) is called.  The cancelled task
\* runs its finally clauses (lines 315-323): the slot of its id leaves
\* _pending_pongs.  gap takes the id when the connection that ends is the
\* default's and the instance is RELOADING.
Teardown(t, rs) ==
    LET id == tasks[t].iid
        cancelled == IF id \in DOMAIN heartbeat_tasks
                     THEN {heartbeat_tasks[id]} \cap DOMAIN heartbeats ELSE {}
    IN  /\ heartbeat_tasks' = Del(heartbeat_tasks, {id})
        /\ heartbeats' = Del(heartbeats, cancelled)
        /\ pong_events' = Del(pong_events, cancelled)
        /\ pending_pongs' = IF cancelled = {} THEN pending_pongs
                            ELSE Del(pending_pongs, {id})
        /\ UNCHANGED <<running, wire>>
        /\ gap' = IF /\ rs[tasks[t].inst].status = "reloading"
                     /\ default_instance_id = id
                     /\ InstHas(id)
                     /\ InstRec(id) = tasks[t].inst
                  THEN gap \cup {id} ELSE gap
        /\ UnregisterEnter(t, id, rs)

\* line 198: after a frame the loop goes on while the server runs and the
\* instance is connected
LoopOrLeave(t, rs) ==
    IF running /\ is_connected(rs[tasks[t].inst])
    THEN /\ recs' = rs
         /\ UNCHANGED <<instances, default_instance_id, grace_period_tasks, was_default,
                        timers, lock, tasks, heartbeat_tasks, running, wire, heartbeats, pending_pongs, pong_events, gap>>
    ELSE Teardown(t, rs)

\* lines 226-230: a STATUS frame arrives on connection t
AgentStatusCore(t, status) ==
    LET id == tasks[t].iid
    IN  /\ tasks[t].pc = "loop"
        /\ LoopOrLeave(t, IF InstHas(id)
                          THEN SetRec(recs, InstRec(id), set_status(recs[InstRec(id)], status))
                          ELSE recs)
        /\ NoCallEnds /\ UNCHANGED <<cacheState, pending_commands, reqs, answered,
                   executions, queue_log>>

AgentStatus(t, status) == AgentStatusCore(t, status) /\ UNCHANGED clock

SetResultEvery(rq, c, resp) ==
    [k \in DOMAIN rq |-> IF rq[k].pc = "sent" /\ rq[k].future = "pending"
                          THEN [rq[k] EXCEPT !.future = "done", !.result = resp]
                          ELSE rq[k]]

\* lines 240-242: the Future of call c gets its result unless it is done
SetResult(rq, c, resp) ==
    IF rq[c].future = "pending"
    THEN [rq EXCEPT ![c].future = "done", ![c].result = resp]
    ELSE rq

\* lines 234-245: a COMMAND_RESULT frame with id r arrives on connection t:
\* the slot filed under r is taken out and completed; without one the frame
\* is a late result and is dropped
AgentResult(t, r, success, data) ==
    /\ tasks[t].pc = "loop"
    /\ IF r \in DOMAIN pending_commands
       THEN /\ pending_commands' = Del(pending_commands, {r})
            /\ reqs' = SetResult(reqs, pending_commands[r], Resp(success, "", data))
       ELSE UNCHANGED <<pending_commands, reqs>>
    /\ LoopOrLeave(t, recs)
    /\ NoCallEnds /\ UNCHANGED <<cacheState, answered,
                   executions, queue_log>>
    /\ UNCHANGED clock

\* lines 200-215: read_frame raises, the connection is over
AgentEOF(t) ==
    /\ tasks[t].pc = "loop"
    /\ Teardown(t, recs)
    /\ NoCallEnds /\ UNCHANGED <<cacheState, pending_commands, reqs, answered,
                   executions, queue_log>>
    /\ UNCHANGED clock

\* lines 268-317: one turn of the heartbeat loop of task b, started for the
\* instance id of record b: after the sleep it looks the id up; without a
\* connected instance it ends; else it sends PING and waits for the PONG,
\* which comes (`pong`) or not; it ends at HEARTBEAT_MAX_RETRIES consecutive
\* failures.  The slot it filed in _pending_pongs is popped when the wait or
\* the loop is over, so a whole turn leaves none under its id.
HeartbeatTurn(b, pong) ==
    LET id == recs[b].iid
        failures == heartbeats[b] + 1
    IN  /\ b \in DOMAIN heartbeats
        /\ heartbeats' =
              IF ~InstHas(id) \/ ~is_connected(recs[InstRec(id)]) THEN Del(heartbeats, {b})
              ELSE IF pong THEN Put(heartbeats, b, 0)
              ELSE IF failures >= HEARTBEAT_MAX_RETRIES THEN Del(heartbeats, {b})
              ELSE Put(heartbeats, b, failures)
        /\ pending_pongs' = Del(pending_pongs, {id})
        /\ NoCallEnds
        /\ UNCHANGED <<cacheState, regVars, heartbeat_tasks, running, wire, clock, pending_commands, reqs, answered, gap,
                   executions, queue_log, pong_events>>

HEARTBEAT_TIMEOUT_MS == 15000

reload_timeout_ms == 30000

\* the readings tried for (time.time() - last_heartbeat) * 1000
Elapsed == {0, HEARTBEAT_TIMEOUT_MS, HEARTBEAT_TIMEOUT_MS + 1,
            reload_timeout_ms, reload_timeout_ms + 1}

\* the timeouts a caller may pass
Timeouts == {HEARTBEAT_TIMEOUT_MS, reload_timeout_ms}

EffectiveTimeoutAsPassed(rec, timeout_ms) == timeout_ms

\* instance_registry.py lines 465-467: a RELOADING instance is given
\* 30000 ms whatever the caller passed
EffectiveTimeout(rec, timeout_ms) ==
    IF rec.status = "reloading" THEN reload_timeout_ms ELSE timeout_ms

\* instance_registry.py lines 454-476, handle_heartbeat_timeout with the
\* clock reading `elapsed`: what it returns and the records it leaves
handle_heartbeat_timeout(rs, id, timeout_ms, elapsed) ==
    IF ~InstHas(id) THEN [ret |-> FALSE, recs |-> rs]
    ELSE IF elapsed > EffectiveTimeout(rs[InstRec(id)], timeout_ms)
         THEN [ret |-> TRUE,
               recs |-> SetRec(rs, InstRec(id), set_status(rs[InstRec(id)], "disconnected"))]
         ELSE [ret |-> FALSE, recs |-> rs]

\* server.py lines 200-208: no frame came on connection t within
\* HEARTBEAT_TIMEOUT_MS: the registry is asked about the id; on True the
\* handler leaves the loop, else it reads on while its instance is connected
ReadTimeoutCore(t, elapsed) ==
    LET out == handle_heartbeat_timeout(recs, tasks[t].iid, HEARTBEAT_TIMEOUT_MS, elapsed)
    IN  /\ tasks[t].pc = "loop"
        /\ IF out.ret THEN Teardown(t, out.recs) ELSE LoopOrLeave(t, out.recs)
        /\ last' = Ended("heartbeat_timeout", IdleCall, "returned",
                         Resp(out.ret, "", elapsed), "")
        /\ UNCHANGED <<cacheState, pending_commands, reqs, answered, executions, queue_log>>

ReadTimeout(t, elapsed) == ReadTimeoutCore(t, elapsed) /\ UNCHANGED clock

\* server.py lines 268-290: heartbeat task b wakes from its sleep and looks
\* its id up: without a connected instance it ends (and pops the slot of the
\* id, line 323); else its Event is filed under the id, PING is written and
\* it waits for the PONG
HeartbeatPingCore(b) ==
    LET id == recs[b].iid
    IN  /\ b \in DOMAIN heartbeats
        /\ b \notin DOMAIN pong_events
        /\ IF ~InstHas(id) \/ ~is_connected(recs[InstRec(id)])
           THEN /\ heartbeats' = Del(heartbeats, {b})
                /\ pending_pongs' = Del(pending_pongs, {id})
                /\ UNCHANGED pong_events
           ELSE /\ pending_pongs' = Put(pending_pongs, id, b)
                /\ pong_events' = Put(pong_events, b, FALSE)
                /\ UNCHANGED heartbeats
        /\ NoCallEnds
        /\ UNCHANGED <<cacheState, regVars, heartbeat_tasks, running, wire, pending_commands, reqs, answered,
                       gap, executions, queue_log>>

HeartbeatPing(b) == HeartbeatPingCore(b) /\ UNCHANGED clock

\* server.py lines 247-251: a PONG frame is read on connection t while its
\* instance is connected: the Event filed under the id is set
AgentPongCore(t) ==
    LET id == tasks[t].iid
    IN  /\ tasks[t].pc = "loop"
        /\ is_connected(recs[tasks[t].inst])
        /\ pong_events' = IF id \in DOMAIN pending_pongs /\ pending_pongs[id] \in DOMAIN pong_events
                          THEN [pong_events EXCEPT ![pending_pongs[id]] = TRUE]
                          ELSE pong_events
        /\ NoCallEnds
        /\ UNCHANGED <<cacheState, regVars, heartbeat_tasks, running, wire, heartbeats, pending_pongs,
                       pending_commands, reqs, answered, gap, executions, queue_log>>

AgentPong(t) == AgentPongCore(t) /\ UNCHANGED clock

\* server.py lines 291-296, 315-317: the Event of task b is set: the wait
\* returns, the failures start again at 0 and the slot of the id is popped
HeartbeatPongCore(b) ==
    /\ b \in DOMAIN pong_events
    /\ pong_events[b]
    /\ heartbeats' = Put(heartbeats, b, 0)
    /\ pong_events' = Del(pong_events, {b})
    /\ pending_pongs' = Del(pending_pongs, {recs[b].iid})
    /\ NoCallEnds
    /\ UNCHANGED <<cacheState, regVars, heartbeat_tasks, running, wire, pending_commands, reqs, answered,
                   gap, executions, queue_log>>

HeartbeatPong(b) == HeartbeatPongCore(b) /\ UNCHANGED clock

\* server.py lines 297-306, 315-323: the wait of task b times out: one more
\* failure, the slot of the id is popped, and at HEARTBEAT_MAX_RETRIES the
\* loop breaks, which is all it does
HeartbeatTimeoutCore(b) ==
    LET failures == heartbeats[b] + 1
    IN  /\ b \in DOMAIN pong_events
        /\ ~pong_events[b]
        /\ heartbeats' = IF failures >= HEARTBEAT_MAX_RETRIES THEN Del(heartbeats, {b})
                         ELSE Put(heartbeats, b, failures)
        /\ pong_events' = Del(pong_events, {b})
        /\ pending_pongs' = Del(pending_pongs, {recs[b].iid})
        /\ NoCallEnds
        /\ UNCHANGED <<cacheState, regVars, heartbeat_tasks, running, wire, pending_commands, reqs, answered,
                       gap, executions, queue_log>>

HeartbeatTimeout(b) == HeartbeatTimeoutCore(b) /\ UNCHANGED clock

\* lines 379-394: SET_DEFAULT from a client
CliSetDefault(id) ==
    /\ SetDefaultCore(id)
    /\ gap' = {}
    /\ NoCallEnds /\ UNCHANGED <<cacheState, heartbeat_tasks, running, wire, clock, heartbeats, pending_pongs, pong_events, pending_commands, reqs, answered,
                   executions, queue_log>>

\* lines 396-398: REQUEST from a client, through the request cache
CliRequest(c, r, target) ==
    /\ RequestExecute(c, r, target)

(***************************************************************************)
(* The relay with clients' REQUESTs in flight at once, within one period   *)
(* of the sweeper.                                                         *)
(***************************************************************************)
NextRelay ==
    \/ \E t \in Tasks, id \in InstanceIds :
          Accepted < MaxRelayConns /\ HandleUnityConnection(t, id)
    \/ \E t \in Tasks, status \in Statuses : AgentStatus(t, status)
    \/ \E t \in Tasks, r \in RequestIds, success \in BOOLEAN, data \in AgentData :
          AgentResult(t, r, success, data)
    \/ \E t \in Tasks : AgentEOF(t)
    \/ \E t \in Tasks : UnregisterResume(t)
    \/ \E c \in RelayCalls, r \in RequestIds : HandleRequestHit(c, r)
    \/ \E c \in RelayCalls, r \in RequestIds : HandleRequestJoin(c, r)
    \/ \E c \in RelayCalls, r \in RequestIds, target \in Targets :
          nexec < MaxRelayExec /\ CliRequest(c, r, target)
    \/ \E c \in RelayCalls : PollWake(c)
    \/ \E c \in RelayCalls : ExecResult(c)
    \/ \E c \in RelayCalls : ExecTimeout(c)
    \/ \E c \in RelayCalls : WaiterResume(c)

SpecRelay == InitRelay /\ [][NextRelay]_vars

(***************************************************************************)
(* The relay with one client that repeats its REQUESTs while time passes   *)
(* and the sweeper runs.                                                   *)
(***************************************************************************)
RetryCalls == 1..NumRetryCalls

NextRetry ==
    \/ \E t \in Tasks, id \in InstanceIds :
          Accepted < MaxRelayConns /\ HandleUnityConnection(t, id)
    \/ \E t \in Tasks, status \in Statuses : AgentStatus(t, status)
    \/ \E t \in Tasks, r \in RequestIds, success \in BOOLEAN, data \in AgentData :
          AgentResult(t, r, success, data)
    \/ \E t \in Tasks : AgentEOF(t)
    \/ \E t \in Tasks : UnregisterResume(t)
    \/ \E c \in RetryCalls, r \in RequestIds : HandleRequestHit(c, r)
    \/ \E c \in RetryCalls, r \in RequestIds, target \in Targets :
          nexec < MaxRelayExec /\ CliRequest(c, r, target)
    \/ \E c \in RetryCalls : PollWake(c)
    \/ \E c \in RetryCalls : ExecResult(c)
    \/ \E c \in RetryCalls : ExecTimeout(c)
    \/ CleanupExpired
    \/ Tick

SpecRetry == InitRelay /\ [][NextRetry]_vars

(***************************************************************************)
(* The relay and its agents: connections come, take over and go.           *)
(***************************************************************************)
NextAgents ==
    \/ \E t \in Tasks, id \in InstanceIds, version \in Versions : RegisterFrame(t, id, version)
    \/ \E t \in Tasks : ConnectionGranted(t)
    \/ \E t \in Tasks : ConnectionResumes(t)
    \/ \E t \in Tasks, status \in Statuses : AgentStatus(t, status)
    \/ \E t \in Tasks : AgentEOF(t)
    \/ \E t \in Tasks : UnregisterGranted(t)
    \/ \E t \in Tasks : UnregisterResume(t)
    \/ \E id \in InstanceIds : CliSetDefault(id)
    \/ \E b \in DOMAIN heartbeats, pong \in BOOLEAN : HeartbeatTurn(b, pong)

SpecAgents == InitRelay /\ [][NextAgents]_vars

(***************************************************************************)
(* The relay and its one-shot clients: REQUEST, LIST_INSTANCES and         *)
(* SET_DEFAULT connections while two agents, whose projects have the same  *)
(* name, come and go.  `last` is the reply of the client handler that ends *)
(* in the step: "returned" is a reply frame written, "raised" an exception *)
(* that reaches _handle_connection (lines 143-145), which writes nothing.  *)
(***************************************************************************)
ClientCalls == 1..NumClientCalls

ClientTargets == Targets \cup {"p", "u/p", ""}

\* the clients repeat one request id
ClientRequestIds == {"r1"}

\* lines 371-377: LIST_INSTANCES is answered with INSTANCES
ClientListInstances ==
    /\ last' = Ended("list", IdleCall, "returned", Resp(TRUE, "", 0), "")
    /\ UNCHANGED <<cacheState, regVars, srvVars>>

SetDefaultFindsGraced(id) == InstHas(id) \/ id \in DOMAIN grace_period_tasks

\* instance_registry.py lines 351-352: set_default looks id up in _instances
SetDefaultFinds(id) == InstHas(id)

\* lines 379-394: SET_DEFAULT is answered with RESPONSE, or with ERROR when
\* set_default finds no instance of that id
ClientSetDefault(id) ==
    /\ IF SetDefaultFinds(id)
       THEN /\ default_instance_id' = id
            /\ gap' = {}
            /\ UNCHANGED <<recs, instances, grace_period_tasks, was_default, timers, lock, tasks>>
       ELSE UNCHANGED <<regVars, gap>>
    /\ last' = Ended("set_default", IdleCall, "returned",
                     IF SetDefaultFinds(id) THEN Resp(TRUE, "", 0)
                     ELSE Error("INSTANCE_NOT_FOUND"), "")
    /\ UNCHANGED <<cacheState, heartbeat_tasks, running, wire, clock, heartbeats, pending_pongs, pong_events, pending_commands, reqs, answered,
                   executions, queue_log>>

NextClients ==
    \/ \E t \in Tasks, id \in InstanceIds :
          Accepted < MaxClientConns /\ HandleUnityConnection(t, id)
    \/ \E t \in Tasks : ConnectionGranted(t)
    \/ \E t \in Tasks : ConnectionResumes(t)
    \/ \E t \in Tasks, status \in Statuses : AgentStatus(t, status)
    \/ \E t \in Tasks, r \in ClientRequestIds, success \in BOOLEAN :
          AgentResult(t, r, success, 1)
    \/ \E t \in Tasks : AgentEOF(t)
    \/ \E t \in Tasks : UnregisterGranted(t)
    \/ \E t \in Tasks : UnregisterResume(t)
    \/ ClientListInstances
    \/ \E id \in InstanceIds \cup {"p"} : ClientSetDefault(id)
    \/ \E c \in ClientCalls, r \in ClientRequestIds : HandleRequestHit(c, r)
    \/ \E c \in ClientCalls, r \in ClientRequestIds, target \in ClientTargets :
          nexec < MaxClientExec /\ CliRequest(c, r, target)
    \/ \E c \in ClientCalls : PollWake(c)
    \/ \E c \in ClientCalls : ExecResult(c)
    \/ \E c \in ClientCalls : ExecTimeout(c)

SpecClients == InitRelay /\ [][NextClients]_vars

(***************************************************************************)
(* The command queue of one instance, with QUEUE_ENABLED set.  Every       *)
(* REQUEST has an id of its own (the request cache runs each one), and     *)
(* names the instance by its id.  executions[e] is one invocation of       *)
(* _execute_command for request `rid`:                                     *)
(*   parent  0 when _handle_request called it, else the invocation in      *)
(*           whose `finally` _process_queue called it (line 348)           *)
(*   serves  the invocation that waits for the Future of the queue entry   *)
(*           _process_queue took (line 357)                                *)
(*   pc      "poll" (asleep in the wait loop), "sent" (waiting for the     *)
(*           Future of the COMMAND), "queued" (waiting for the Future of   *)
(*           its queue entry, line 518), "finally" (waiting for            *)
(*           _process_queue, line 600), "done" (returned `result`)         *)
(*   held    what it returns once its `finally` is through                 *)
(* A queue entry is [owner, rid]: its Future is the one `owner` waits for. *)
(* The agent answers every COMMAND before its timeout.                     *)
(* The state one handler run goes through is the record                    *)
(*   [x: executions, q: command_queue, status, pend: pending_commands,     *)
(*    log: queue_log].                                                     *)
(***************************************************************************)
QueueInstance == 1

NewExecution(rid, parent, serves) ==
    [rid |-> rid, parent |-> parent, serves |-> serves, pc |-> "poll", waited_ms |-> 0,
     future |-> "none", result |-> "", held |-> ""]

\* requests that have arrived
Arrived == Cardinality({e \in DOMAIN executions : executions[e].parent = 0})

RunState ==
    [x |-> executions, q |-> recs[QueueInstance].command_queue,
     status |-> recs[QueueInstance].status, pend |-> pending_commands, log |-> queue_log]

IsQueueFullLate(q) == Len(q) > QUEUE_MAX_SIZE

\* src/relay/instance_registry.py lines 82-85
is_queue_full(q) == Len(q) >= QUEUE_MAX_SIZE

\* the Future that invocation e waits for in the queue is done: it has its
\* result, or wait_for cancelled it at the timeout
QueueFutureDone(S, e) == S.x[e].pc # "queued" \/ S.x[e].future = "done"

\* invocation e returns resp.  Lines 348-358 and 600: when _process_queue
\* called it, the Future of the queue entry gets resp unless it is done, and
\* the `finally` of the parent is through, which returns what it held
RECURSIVE Return(_, _, _)
Return(S, e, resp) ==
    LET p == S.x[e].parent
        o == S.x[e].serves
        S1 == [S EXCEPT !.x[e] = [NewExecution(@.rid, p, o) EXCEPT !.pc = "done",
                                                                   !.result = resp]]
        S2 == IF QueueFutureDone(S1, o) THEN S1
              ELSE [S1 EXCEPT !.x[o].future = "done", !.x[o].result = resp]
    IN  IF p = 0 THEN S1 ELSE Return(S2, p, S2.x[p].held)

\* lines 436-565: invocation e runs from the top of the wait loop to its
\* next suspension or to its return.  One modelled sleep stands for the polls
\* up to the one that finds the instance ready, or up to max_wait_ms.
Run(S, e) ==
    LET rec == [recs[QueueInstance] EXCEPT !.status = S.status]
        rid == S.x[e].rid
    IN  IF /\ S.x[e].waited_ms < max_wait_ms
           /\ \/ S.status \in {"reloading", "disconnected"}
              \/ ~is_connected(rec)
        THEN [S EXCEPT !.x[e].pc = "poll", !.x[e].waited_ms = max_wait_ms]
        ELSE IF S.status = "reloading" THEN Return(S, e, "INSTANCE_RELOADING")
        ELSE IF S.status = "busy"
        THEN IF ~rec.queue_enabled THEN Return(S, e, "INSTANCE_BUSY")
             ELSE IF is_queue_full(S.q) THEN Return(S, e, "QUEUE_FULL")
             ELSE [S EXCEPT !.q = Append(@, [owner |-> e, rid |-> rid]),
                            !.x[e].pc = "queued", !.x[e].future = "pending",
                            !.log.enqueued = Append(@, rid)]
        ELSE [S EXCEPT !.pend = Put(@, rid, e),
                       !.status = "busy",
                       !.x[e].pc = "sent", !.x[e].future = "pending",
                       !.log.emitted = Append(@, rid)]

\* lines 325-358: _process_queue called from the `finally` of invocation e:
\* entries whose Future is done are passed over, the first other one is run
RECURSIVE ProcessQueue(_, _)
ProcessQueue(S, e) ==
    IF ~recs[QueueInstance].queue_enabled \/ S.q = <<>> THEN Return(S, e, S.x[e].held)
    ELSE LET entry == Head(S.q)
             S1 == [S EXCEPT !.q = Tail(@)]
             n == Len(S.x) + 1
         IN  IF QueueFutureDone(S1, entry.owner) THEN ProcessQueue(S1, e)
             ELSE Run([S1 EXCEPT !.x = Append(@, NewExecution(entry.rid, e, entry.owner))], n)

\* lines 566-600: invocation e, in flight, ends with resp: BUSY goes back to
\* READY, the Future is unfiled and the queue is processed
Finish(S, e, resp) ==
    ProcessQueue([S EXCEPT !.x[e].pc = "finally", !.x[e].held = resp,
                           !.status = IF @ = "busy" THEN "ready" ELSE @,
                           !.pend = Del(@, {S.x[e].rid})], e)

\* the state after a handler ran
Becomes(S) ==
    /\ executions' = S.x
    /\ recs' = SetRec(recs, QueueInstance,
                      [(IF S.status = recs[QueueInstance].status THEN recs[QueueInstance]
                        ELSE set_status(recs[QueueInstance], S.status))
                       EXCEPT !.command_queue = S.q])
    /\ pending_commands' = S.pend
    /\ queue_log' = S.log
    /\ NoCallEnds
    /\ UNCHANGED <<cacheState, instances, default_instance_id, grace_period_tasks, was_default,
                   timers, lock, tasks, heartbeat_tasks, running, wire, clock, heartbeats, pending_pongs, pong_events, reqs, answered, gap>>

\* lines 408-420: a REQUEST with a new id arrives
QueueRequest ==
    LET n == Len(executions) + 1
    IN  Becomes(Run([RunState EXCEPT !.x = Append(@, NewExecution(Arrived + 1, 0, 0))], n))

\* lines 451-466: a sleep of the wait loop is over
QueuePollWake(e) ==
    /\ executions[e].pc = "poll"
    /\ Becomes(Run(RunState, e))

\* lines 234-245: the agent's COMMAND_RESULT for a filed id
QueueAgentResult(r, success) ==
    /\ r \in DOMAIN pending_commands
    /\ Becomes([RunState EXCEPT !.pend = Del(@, {r}),
                                !.x[pending_commands[r]].future = "done",
                                !.x[pending_commands[r]].result =
                                    IF success THEN "ok" ELSE "failed"])

\* lines 226-230: the agent's STATUS frame
QueueAgentStatus(status) ==
    Becomes([RunState EXCEPT !.status = status])

\* lines 565-575, 591-600: the Future of the COMMAND has its result
QueueExecResult(e) ==
    /\ executions[e].pc = "sent"
    /\ executions[e].future = "done"
    /\ Becomes(Finish(RunState, e, executions[e].result))

\* lines 518-522: the Future of the queue entry has its result
QueuedResume(e) ==
    /\ executions[e].pc = "queued"
    /\ executions[e].future = "done"
    /\ Becomes(Return(RunState, e, executions[e].result))

\* lines 523-528: wait_for on the Future of the queue entry times out; the
\* entry stays in the queue
QueuedTimeout(e) ==
    /\ executions[e].pc = "queued"
    /\ executions[e].future = "pending"
    /\ Becomes(Return(RunState, e, "TIMEOUT"))

\* one instance is registered, READY, with its queue enabled
InitQueue ==
    /\ InitCache
    /\ InitServer
    /\ recs = <<[NewInstance("A") EXCEPT !.queue_enabled = TRUE]>>
    /\ instances = <<[id |-> "A", rec |-> QueueInstance]>>
    /\ default_instance_id = "A"
    /\ grace_period_tasks = EmptyMap
    /\ was_default = EmptyMap
    /\ timers = <<>>
    /\ lock = [holder |-> 0, waiters |-> <<>>]
    /\ tasks = [t \in Tasks |-> IdleTask]

\* STATUS frames that have arrived: the agent reports RELOADING and READY
QueueStatuses == {"ready", "reloading"}

NextQueue ==
    \/ Arrived < MaxQueueCalls /\ QueueRequest
    \/ \E e \in DOMAIN executions : QueuePollWake(e)
    \/ \E r \in DOMAIN pending_commands : QueueAgentResult(r, TRUE)
    \/ \E status \in QueueStatuses :
          status # recs[QueueInstance].status /\ QueueAgentStatus(status)
    \/ \E e \in DOMAIN executions :
          Len(executions) < MaxQueueExecs /\ QueueExecResult(e)
    \/ \E e \in DOMAIN executions : QueuedResume(e)
    \/ \E e \in DOMAIN executions : QueuedTimeout(e)

SpecQueue == InitQueue /\ [][NextQueue]_vars

(***************************************************************************)
(* The queue filling up: REQUESTs arrive faster than the agent answers.    *)
(***************************************************************************)
NextQueueCap ==
    \/ Arrived < MaxCapCalls /\ QueueRequest
    \/ \E r \in DOMAIN pending_commands : QueueAgentResult(r, TRUE)
    \/ \E e \in DOMAIN executions :
          Len(executions) < MaxCapCalls /\ QueueExecResult(e)
    \/ \E e \in DOMAIN executions : QueuedResume(e)

SpecQueueCap == InitQueue /\ [][NextQueueCap]_vars

(***************************************************************************)
(* The lookup of instances by query: the registry starts with up to        *)
(* MaxLive registered instances of any ids and project names, and          *)
(* instances leave.                                                        *)
(***************************************************************************)
ResolveIds == {"A", "B", "C", "p"}

Names == {"p", "q", "pq"}

Queries == {"A", "B", "C", "p", "q", "pq", "u/p", ""}

\* the state after n agents have registered
InitResolve ==
    /\ InitCache
    /\ InitServer
    /\ \E n \in 0..MaxLive : \E ids \in [1..n -> ResolveIds], names \in [1..n -> Names] :
          /\ \A i, j \in 1..n : i # j => ids[i] # ids[j]
          /\ recs = [i \in 1..n |-> [NewInstance(ids[i]) EXCEPT !.project_name = names[i]]]
          /\ instances = [i \in 1..n |-> [id |-> ids[i], rec |-> i]]
          /\ default_instance_id = IF n = 0 THEN NoneId ELSE ids[1]
    /\ grace_period_tasks = EmptyMap
    /\ was_default = EmptyMap
    /\ timers = <<>>
    /\ lock = [holder |-> 0, waiters |-> <<>>]
    /\ tasks = [t \in Tasks |-> IdleTask]

NextResolve ==
    \/ \E t \in Tasks, id \in ResolveIds : Unregister(t, id)
    \/ \E t \in Tasks : UnregisterGranted(t)
    \/ \E t \in Tasks : UnregisterResume(t)
    \/ \E id \in ResolveIds : SetDefault(id)

SpecResolve == InitResolve /\ [][NextResolve]_vars

(***************************************************************************)
(* Properties of the request cache (SpecCache).                            *)
(***************************************************************************)
Executing(r) == {c \in Calls : calls[c].pc = "exec" /\ calls[c].rid = r}

\* C1: for every request id, at most one execute_fn invocation is active
C1_SingleFlight == \A r \in RequestIds : Cardinality(Executing(r)) <= 1

\* a duplicate arrived while the id was executing again, and was coalesced
C1_Witness ==
    \E r \in RequestIds : \E c, d \in Calls :
        /\ calls[c].pc = "exec" /\ calls[c].rid = r /\ calls[c].exec >= 2
        /\ calls[d].pc = "wait" /\ calls[d].rid = r

\* C4: every cache entry holds a success response, and once an execution of
\* an id has returned an error response the id is a cache miss, so that the
\* next handle_request of it executes again
C4_OnlySuccessCached ==
    /\ \A r \in DOMAIN cache : cache[r].response.success = TRUE
    /\ (last.how = "exec" /\ last.end = "returned" /\ ~last.ret.success)
          => ~CacheHit(last.rid)

\* an id whose execution returned an error is executing again, next to a
\* cached success of another id
C4_Witness ==
    \E c \in Calls :
        /\ calls[c].pc = "exec"
        /\ calls[c].rid \in DOMAIN pending_results
        /\ ~pending_results[calls[c].rid].success
        /\ DOMAIN cache # {}

\* C6: no request id is in the cache map and in the in-flight map at once
C6_DisjointMaps == \A r \in RequestIds : ~(r \in DOMAIN cache /\ r \in DOMAIN pending)

\* C7: a waiter that joined an execution which produced a response (success
\* or error) returns exactly that response
C7_WaitersGetResponse ==
    (last.how = "waiter" /\ last.sig \in {"ok", "err"}) => last.same

\* C8: when execute_fn raises, the caller sees the exception, the in-flight
\* record is gone, and the waiters of that execution get no response
C8_RaiseLeavesNothing ==
    /\ (last.how = "exec" /\ last.end = "raised") => last.err = "ExecuteError"
    /\ (last.how = "waiter" /\ last.sig = "raise") => last.end = "raised"

(***************************************************************************)
(* Properties of the registry (SpecRegistry).                              *)
(***************************************************************************)
\* this step is the body of timer k running to its end
Expires(k) == timers[k].pc \in {"sleep", "lock"} /\ timers'[k].pc = "done"

\* this step is register(id) starting its body while id is in the grace table
Reconnects(t, id) ==
    /\ tasks[t].pc \in {"idle", "reg_lock"}
    /\ id \in DOMAIN grace_period_tasks
    /\ timers'[grace_period_tasks[id]].pc = "cancelled"
    /\ tasks'[t] # tasks[t]

\* this step is a register(id) that found id in the grace period returning
Reconnected(t, id) ==
    \/ Reconnects(t, id) /\ tasks'[t].pc = "idle"
    \/ tasks[t].pc = "reg_close" /\ tasks[t].iid = id /\ tasks[t].restore /\ tasks'[t].pc = "idle"

\* the default names a live record or nothing
DefaultLiveOrNone == default_instance_id = NoneId \/ InstHas(default_instance_id)

\* C9: a timer started for an instance that was RELOADING by its status: a
\* register(id) that finds it installs a READY record and, if id was the
\* default at the disconnect, returns with id as the default; if no register
\* ran, then after the timer's expiry id is neither live nor in the grace
\* table and a default that still named id has been re-elected or cleared.
C9_GracePeriod ==
    [][ /\ \A t \in Tasks, id \in InstanceIds :
              Reconnects(t, id) /\ timers[grace_period_tasks[id]].by_status
                  => /\ tasks'[t].pc = "idle" =>
                            /\ InstHas(id)'
                            /\ recs'[InstRec(id)'].status = "ready"
                            /\ InstRec(id)' = Len(recs')
                     /\ timers[grace_period_tasks[id]].wd =>
                            \/ tasks'[t].pc = "idle" /\ default_instance_id' = id
                            \/ tasks'[t].pc = "reg_close" /\ tasks'[t].restore
        /\ \A t \in Tasks :
              tasks[t].pc = "reg_close" /\ tasks[t].restore /\ tasks'[t].pc = "idle"
                  => /\ default_instance_id' = tasks[t].iid
                     /\ InstHas(tasks[t].iid)'
                     /\ recs'[InstRec(tasks[t].iid)'].status = "ready"
        /\ \A k \in DOMAIN timers :
              Expires(k) /\ timers[k].by_status /\ ~timers[k].reg
                  => /\ ~InstHas(timers[k].iid)'
                     /\ timers[k].iid \notin DOMAIN grace_period_tasks'
                     /\ default_instance_id = timers[k].iid => DefaultLiveOrNone'
      ]_vars

\* C9, the first half alone: the reconnection within the grace period
C9_Reconnect ==
    [][ /\ \A t \in Tasks, id \in InstanceIds :
              Reconnects(t, id) /\ timers[grace_period_tasks[id]].by_status
                  => /\ tasks'[t].pc = "idle" =>
                            /\ InstHas(id)'
                            /\ recs'[InstRec(id)'].status = "ready"
                            /\ InstRec(id)' = Len(recs')
                     /\ timers[grace_period_tasks[id]].wd =>
                            \/ tasks'[t].pc = "idle" /\ default_instance_id' = id
                            \/ tasks'[t].pc = "reg_close" /\ tasks'[t].restore
        /\ \A t \in Tasks :
              tasks[t].pc = "reg_close" /\ tasks[t].restore /\ tasks'[t].pc = "idle"
                  => /\ default_instance_id' = tasks[t].iid
                     /\ InstHas(tasks[t].iid)'
                     /\ recs'[InstRec(tasks[t].iid)'].status = "ready"
      ]_vars

\* C9, the expiry without the clause about the default
C9_ExpiryRemoves ==
    [][ \A k \in DOMAIN timers :
              Expires(k) /\ timers[k].by_status /\ ~timers[k].reg
                  => /\ ~InstHas(timers[k].iid)'
                     /\ timers[k].iid \notin DOMAIN grace_period_tasks'
      ]_vars

\* no registry operation is under way: every call has returned and no timer
\* is in its body
Quiescent ==
    /\ \A t \in Tasks : tasks[t].pc = "idle"
    /\ LockFree

\* C11: whenever no registry operation is under way, the default is null, or
\* the id of a live record, or the id of an entry of the grace-period table;
\* and no id is live and in the grace-period table at once.
C11_DefaultNamesKnownId ==
    Quiescent =>
        /\ \/ default_instance_id = NoneId
           \/ InstHas(default_instance_id)
           \/ default_instance_id \in DOMAIN grace_period_tasks
        /\ \A id \in InstanceIds : ~(InstHas(id) /\ id \in DOMAIN grace_period_tasks)

\* C11, the second half alone
C11_LiveOrGraced ==
    \A id \in InstanceIds : ~(InstHas(id) /\ id \in DOMAIN grace_period_tasks)

(***************************************************************************)
(* Properties of the relay (SpecRelay, SpecRetry, SpecAgents).             *)
(***************************************************************************)
\* the calls whose COMMAND went to object h and whose Future is still filed
\* and without a result
Outstanding(h) ==
    {c \in Calls : /\ reqs[c].pc = "sent"
                   /\ reqs[c].written
                   /\ reqs[c].inst = h
                   /\ reqs[c].future = "pending"
                   /\ calls[c].rid \in DOMAIN pending_commands
                   /\ pending_commands[calls[c].rid] = c}

\* C2: no instance has two COMMANDs out whose pending-command slots are both
\* unresolved.
C2_OneCommandPerInstance ==
    \A h \in DOMAIN recs : Cardinality(Outstanding(h)) <= 1

\* this step is a REQUEST with id r entering handle_request
Arrives(r) ==
    \E c \in Calls :
        /\ calls[c].pc = "idle"
        /\ \/ calls'[c].pc # "idle" /\ calls'[c].rid = r
           \/ last'.how = "hit" /\ last'.rid = r
           \/ nexec' # nexec /\ calls' = calls /\ last'.how = "exec" /\ last'.rid = r

\* C5: a REQUEST whose id was answered with a successful RESPONSE no longer
\* ago than the ttl is a cache hit: it returns that RESPONSE, runs no
\* execute_fn, emits no COMMAND and changes no instance.
C5_IdempotentRetry ==
    [][ \A r \in RequestIds :
            (r \in DOMAIN answered /\ Now - answered[r].at <= TTL_SECONDS /\ Arrives(r))
                => /\ last'.how = "hit"
                   /\ last'.ret = answered[r].resp
                   /\ nexec' = nexec
                   /\ reqs' = reqs
                   /\ pending_commands' = pending_commands
                   /\ recs' = recs
      ]_vars

\* a retry was answered from the cache after time has passed
C5_Witness ==
    /\ last.how = "hit"
    /\ last.rid \in DOMAIN answered
    /\ last.ret = answered[last.rid].resp
    /\ last.ret.success
    /\ ticks > 0
    /\ nexec = 1

\* this step ends the teardown of connection handler u
TeardownEnds(u) ==
    /\ tasks[u].pc \in {"loop", "unreg_lock", "unreg_close"}
    /\ tasks'[u].pc = "idle"

\* C3: when the handler of a connection that was taken over ends its
\* teardown while the handler that took over is reading frames, the id has
\* its live record, that record is the new connection's, and the old sink is
\* closed with its queue flushed.
C3_Takeover ==
    [][ \A u, t \in Tasks :
            ( /\ u # t
              /\ TeardownEnds(u)
              /\ tasks[t].pc = "loop"
              /\ tasks[t].iid = tasks[u].iid
              /\ tasks[t].inst > tasks[u].inst )
                => /\ InstHas(tasks[u].iid)'
                   /\ InstRec(tasks[u].iid)' = tasks[t].inst
                   /\ recs'[tasks[t].inst].writer = "open"
                   /\ recs'[tasks[u].inst].writer # "open"
                   /\ recs'[tasks[u].inst].command_queue = <<>>
      ]_vars

\* C10: an instance that was the default when its connection ended while it
\* was RELOADING is the default again once it has registered again.
C10_ReloadSurvival ==
    [][ \A t \in Tasks, id \in InstanceIds :
            (tasks[t].pc # "loop" /\ tasks'[t].pc = "loop" /\ tasks'[t].iid = id /\ id \in gap)
                => default_instance_id' = id
      ]_vars

\* the running heartbeat tasks that were started for instance id
HeartbeatsOf(id) == {b \in DOMAIN heartbeats : recs[b].iid = id}

\* C12: every live record whose connection is up has exactly one running
\* heartbeat task.
C12_OneHeartbeat ==
    \A id \in InstanceIds :
        (InstHas(id) /\ is_connected(recs[InstRec(id)]))
            => Cardinality(HeartbeatsOf(id)) = 1

(***************************************************************************)
(* Properties of the lookup (SpecResolve).                                 *)
(***************************************************************************)
Separators == {"/", "\\"}

Live == {instances[i].rec : i \in 1..Len(instances)}

\* the four stages, as sets of records
IdEquals(query) == {h \in Live : Text(recs[h].iid) = Text(query)}

NameEquals(query) == {h \in Live : Text(recs[h].project_name) = Text(query)}

\* the part of s after its last separator is q
TrailingSegmentIs(s, q) ==
    \E i \in 1..Len(s) :
        /\ s[i] \in Separators
        /\ \A j \in (i + 1)..Len(s) : s[j] \notin Separators
        /\ [j \in 1..(Len(s) - i) |-> s[i + j]] = q

\* s is some text, a separator, and q
PathEndsWith(s, q) ==
    \E i \in 1..Len(s) :
        /\ s[i] \in Separators
        /\ [j \in 1..(Len(s) - i) |-> s[i + j]] = q

SegmentEquals(query) == {h \in Live : TrailingSegmentIs(Text(recs[h].iid), Text(query))}

PathSuffix(query) == {h \in Live : PathEndsWith(Text(recs[h].iid), Text(query))}

NamePrefix(query) ==
    {h \in Live : \E k \in 0..Len(Text(recs[h].project_name)) :
                      [j \in 1..k |-> Text(recs[h].project_name)[j]] = Text(query)}

Verdict(matches) ==
    IF Cardinality(matches) = 1 THEN CHOOSE h \in matches : TRUE ELSE Ambiguous

\* the first stage with a match decides
Reference(s1, s2, s3, s4) ==
    IF s1 # {} THEN Verdict(s1)
    ELSE IF s2 # {} THEN Verdict(s2)
    ELSE IF s3 # {} THEN Verdict(s3)
    ELSE IF s4 # {} THEN Verdict(s4)
    ELSE 0

\* C15 as stated: resolve(query) equals the four-stage reference whose third
\* stage matches the instance ids whose trailing path segment equals query
C15_ResolveBySegment ==
    \A query \in Queries :
        resolve_instance(query) =
            Reference(IdEquals(query), NameEquals(query), SegmentEquals(query), NamePrefix(query))

\* C15, amended: resolve(query) equals the four-stage reference whose third
\* stage matches the instance ids that end with a separator followed by query
C15_ResolveBySuffix ==
    \A query \in Queries :
        resolve_instance(query) =
            Reference(IdEquals(query), NameEquals(query), PathSuffix(query), NamePrefix(query))

\* the third stage decides: two ids end with /p and no name is p, and one id
\* ends with /u/p
C15_Witness ==
    /\ NameEquals("p") = {}
    /\ Cardinality(PathSuffix("p")) = 2
    /\ resolve_instance("p") = Ambiguous
    /\ resolve_instance("u/p") > 0
    /\ resolve_instance("q") > 0

(***************************************************************************)
(* Properties of the clients' connections (SpecClients).                   *)
(***************************************************************************)
\* C13: a client handler that ends has written a reply frame (the safety
\* part of: every REQUEST, LIST_INSTANCES or SET_DEFAULT connection gets
\* exactly one reply before the relay closes it)
C13_EveryClientAnswered == last.how # "none" => last.end = "returned"

\* the REQUEST of call c for target ends in this step, at the lookup
RequestDecided(c, target) ==
    \/ \E r \in ClientRequestIds : CliRequest(c, r, target)
    \/ PollWake(c) /\ reqs[c].target = target

\* C14: a REQUEST whose query is ambiguous at the deciding stage is answered
\* with ERROR AMBIGUOUS_INSTANCE, and a REQUEST whose query is the exact id
\* of a live instance that is dispatched goes to that instance
C14_AmbiguousOrExact ==
    [][\A c \in ClientCalls, target \in ClientTargets :
          RequestDecided(c, target) =>
              /\ get_instance_for_request(target) = Ambiguous =>
                    /\ last'.end = "returned"
                    /\ last'.ret.code = "AMBIGUOUS_INSTANCE"
              /\ (InstHas(target) /\ reqs'[c].pc = "sent") =>
                    reqs'[c].inst = InstRec(target)]_vars

\* C14, second half alone: an exact id is routed to its instance
C14_ExactIdRouted ==
    [][\A c \in ClientCalls, target \in ClientTargets :
          (RequestDecided(c, target) /\ InstHas(target) /\ reqs'[c].pc = "sent") =>
              reqs'[c].inst = InstRec(target)]_vars

(***************************************************************************)
(* Properties of the replies to REQUESTs (SpecRelay).                      *)
(***************************************************************************)
\* C20: every reply to a REQUEST that reports failure is an ERROR frame with
\* an error code; a reply without a code is a RESPONSE frame (lines 571-575)
C20_FailuresAreErrors ==
    (last.end = "returned" /\ ~last.ret.success) => last.ret.code # ""

(***************************************************************************)
(* Properties of the REGISTER frame (SpecAgents).                          *)
(***************************************************************************)
\* C19: a REGISTER of another protocol version than "1.0" is answered with
\* REGISTERED success=false, code PROTOCOL_VERSION_MISMATCH, and leaves the
\* registry (records, live table, default id, grace table) and the
\* heartbeat tasks as they were
C19_VersionMismatch ==
    [][\A t \in Tasks, id \in InstanceIds, version \in Versions \ {"1.0"} :
          RegisterFrame(t, id, version) =>
              /\ last'.how = "register"
              /\ last'.ret = Error("PROTOCOL_VERSION_MISMATCH")
              /\ UNCHANGED <<regVars, heartbeat_tasks, running, wire, clock, heartbeats>>]_vars

\* a mismatching REGISTER for an id was answered while an instance of that
\* id is live, with its heartbeat, and is the default
C19_Witness ==
    /\ last.how = "register"
    /\ InstHas("A")
    /\ default_instance_id = "A"
    /\ "A" \in DOMAIN heartbeat_tasks
    /\ grace_period_tasks = EmptyMap

FirstEnqueue(r) ==
    CHOOSE i \in 1..Len(queue_log.enqueued) :
        /\ queue_log.enqueued[i] = r
        /\ \A k \in 1..(i - 1) : queue_log.enqueued[k] # r

WasEnqueued(r) == \E i \in 1..Len(queue_log.enqueued) : queue_log.enqueued[i] = r

\* the client of request r has its reply
Replied(r) ==
    \E e \in DOMAIN executions :
        executions[e].parent = 0 /\ executions[e].rid = r /\ executions[e].pc = "done"

\* C16: the commands enqueued for an instance are emitted in the order in
\* which they were enqueued: when the COMMAND of an enqueued request has been
\* emitted, every request enqueued before it has been emitted before it, or
\* its client has its reply (timeout, error)
C16_QueueFIFO ==
    \A j \in 1..Len(queue_log.emitted) :
        LET y == queue_log.emitted[j]
        IN  WasEnqueued(y) =>
                \A i \in 1..(FirstEnqueue(y) - 1) :
                    LET x == queue_log.enqueued[i]
                    IN  \/ \E k \in 1..(j - 1) : queue_log.emitted[k] = x
                        \/ Replied(x)
                        \/ x = y

\* C17: the queue never holds more than QUEUE_MAX_SIZE entries; a REQUEST
\* that finds the instance BUSY is enqueued while fewer are queued (the
\* tenth too), and with QUEUE_MAX_SIZE queued it is answered QUEUE_FULL and
\* the queue stays as it was
C17_QueueCap ==
    [][LET q == recs[QueueInstance].command_queue
           n == Len(executions) + 1
       IN  /\ Len(recs'[QueueInstance].command_queue) <= QUEUE_MAX_SIZE
           /\ (QueueRequest /\ recs[QueueInstance].status = "busy") =>
                 /\ Len(q) < QUEUE_MAX_SIZE =>
                       /\ recs'[QueueInstance].command_queue =
                              Append(q, [owner |-> n, rid |-> Arrived + 1])
                       /\ executions'[n].pc = "queued"
                 /\ Len(q) >= QUEUE_MAX_SIZE =>
                       /\ recs'[QueueInstance].command_queue = q
                       /\ executions'[n].pc = "done"
                       /\ executions'[n].result = "QUEUE_FULL"]_vars

\* ten commands are queued and one more REQUEST was answered QUEUE_FULL
C17_Witness ==
    /\ Len(recs[QueueInstance].command_queue) = QUEUE_MAX_SIZE
    /\ \E e \in DOMAIN executions :
          executions[e].parent = 0 /\ executions[e].result = "QUEUE_FULL"

(***************************************************************************)
(* Properties of the instance records (SpecRegistry).                      *)
(***************************************************************************)
\* the records in _instances
LiveRecs == {recs[instances[i].rec] : i \in 1..Len(instances)}

\* C22: in every live record reloading_since is set exactly when the status
\* is RELOADING
C22_ReloadingSince ==
    \A rec \in LiveRecs : (rec.reloading_since # -1) <=> (rec.status = "reloading")

\* C23: in every live record the status is DISCONNECTED exactly when the
\* writer is closed or absent
C23_DisconnectedIffClosed ==
    \A rec \in LiveRecs : (rec.status = "disconnected") <=> (rec.writer # "open")


(***************************************************************************)
(* The heartbeat: one agent id, its connections, the heartbeat loops with  *)
(* their PING rounds, and the handler's read timeout.                      *)
(***************************************************************************)
MaxHeartbeatConns == 3   \* SpecHeartbeat: at most this many connections are accepted

HeartbeatIds == {"A"}

HeartbeatStatuses == {"ready", "reloading"}

\* the readings at a read timeout: the read waited HEARTBEAT_TIMEOUT_MS
ReadElapsed == {e \in Elapsed : e > HEARTBEAT_TIMEOUT_MS}

NextHeartbeat ==
    \/ \E t \in Tasks, id \in HeartbeatIds :
          Accepted < MaxHeartbeatConns /\ HandleUnityConnection(t, id)
    \/ \E t \in Tasks : ConnectionGranted(t)
    \/ \E t \in Tasks : ConnectionResumes(t)
    \/ \E t \in Tasks, status \in HeartbeatStatuses : AgentStatus(t, status)
    \/ \E t \in Tasks : AgentPong(t)
    \/ \E t \in Tasks : AgentEOF(t)
    \/ \E t \in Tasks, elapsed \in ReadElapsed : ReadTimeout(t, elapsed)
    \/ \E t \in Tasks : UnregisterGranted(t)
    \/ \E t \in Tasks : UnregisterResume(t)
    \/ \E b \in DOMAIN heartbeats : HeartbeatPing(b)
    \/ \E b \in DOMAIN heartbeats : HeartbeatPong(b)
    \/ \E b \in DOMAIN heartbeats : HeartbeatTimeout(b)

SpecHeartbeat == InitRelay /\ [][NextHeartbeat]_vars

\* C28: handle_heartbeat_timeout(id, timeout_ms) returns True and leaves the
\* record of id DISCONNECTED exactly when id is live and the time since
\* last_heartbeat is strictly greater than the effective timeout (30000 ms
\* for a RELOADING record, timeout_ms otherwise); in every other case it
\* returns False and changes nothing.
C28_HeartbeatTimeoutCheck ==
    \A id \in InstanceIds, timeout_ms \in Timeouts, elapsed \in Elapsed :
        LET out == handle_heartbeat_timeout(recs, id, timeout_ms, elapsed)
            h == InstRec(id)
            exceeded == IF recs[h].status = "reloading" THEN elapsed > 30000
                        ELSE elapsed > timeout_ms
        IN  IF InstHas(id) /\ exceeded
            THEN /\ out.ret
                 /\ out.recs[h].status = "disconnected"
                 /\ \A k \in DOMAIN recs \ {h} : out.recs[k] = recs[k]
            ELSE ~out.ret /\ out.recs = recs

\* C28 witness: a read timeout asked about a live RELOADING instance more
\* than HEARTBEAT_TIMEOUT_MS but not more than 30000 ms after its last frame
\* and was told False: the instance is still live and RELOADING
C28_Witness ==
    /\ last.how = "heartbeat_timeout"
    /\ ~last.ret.success
    /\ last.ret.data > HEARTBEAT_TIMEOUT_MS
    /\ \E id \in HeartbeatIds : InstHas(id) /\ recs[InstRec(id)].status = "reloading"

\* the records that are in _instances
IsLive(h) == \E i \in 1..Len(instances) : instances[i].rec = h

\* C30: for every instance id at most one heartbeat task waits for a PONG,
\* and the task that waits is the one whose Event is filed under the id.
C30_SingleOutstandingPing ==
    \A id \in InstanceIds :
        LET waiting == {b \in DOMAIN pong_events : recs[b].iid = id}
        IN  /\ Cardinality(waiting) <= 1
            /\ \A b \in waiting : id \in DOMAIN pending_pongs /\ pending_pongs[id] = b


\* What the scheduling gives: a task that can take its next step takes it
\* (the lock is handed on, a close returns, a sleep or a wait for the PONG
\* ends).  The agent, as in the claim, keeps sending STATUS frames; when a
\* connection ends or falls silent is left to it.
FairHeartbeat ==
    /\ \A t \in Tasks : /\ WF_vars(ConnectionGranted(t))
                        /\ WF_vars(ConnectionResumes(t))
                        /\ WF_vars(UnregisterGranted(t))
                        /\ WF_vars(UnregisterResume(t))
    /\ \A b \in 1..MaxHeartbeatConns : /\ WF_vars(b \in DOMAIN heartbeats /\ HeartbeatPing(b))
                                       /\ WF_vars(b \in DOMAIN heartbeats /\ HeartbeatPong(b))
                                       /\ WF_vars(b \in DOMAIN heartbeats /\ HeartbeatTimeout(b))
    /\ WF_vars(\E t \in Tasks, status \in HeartbeatStatuses : AgentStatus(t, status))

SpecHeartbeatFair == InitRelay /\ [][NextHeartbeat]_vars /\ FairHeartbeat

\* the heartbeat loop started for connection h is over while its instance
\* is still live and connected
LoopOver(h) ==
    /\ h \in DOMAIN recs
    /\ IsLive(h)
    /\ is_connected(recs[h])
    /\ h \notin DOMAIN heartbeats

\* C29: once the heartbeat loop of a live, connected instance is over, as it
\* is after three consecutive failed rounds, the instance is eventually
\* disconnected and unregistered, also when the agent keeps sending STATUS
\* frames and never answers a PING.
C29_FailedHeartbeatUnregisters ==
    \A h \in 1..MaxHeartbeatConns : LoopOver(h) ~> ~IsLive(h)


(***************************************************************************)
(* The registry's contracts for unregister, register and set_default.      *)
(***************************************************************************)
\* the ids in _instances after the step
LiveIdsAfter == {instances'[i].id : i \in 1..Len(instances')}

\* the step leaves what unregister(id) that returns True promises, h being
\* the record filed under id: id is not live, the record is closed, and the
\* default, when it was id, is a remaining live id or None, else is as it was
Unregistered(id, h) ==
    /\ id \notin LiveIdsAfter
    /\ recs'[h].writer = "none"
    /\ recs'[h].status = "disconnected"
    /\ IF default_instance_id = id
       THEN IF LiveIdsAfter # {} THEN default_instance_id' \in LiveIdsAfter
            ELSE default_instance_id' = NoneId
       ELSE default_instance_id' = default_instance_id

\* the step leaves the registry's tables and records as they were
RegistryUntouched ==
    UNCHANGED <<recs, instances, default_instance_id, grace_period_tasks, was_default, timers>>

\* C25: unregister(id) of a live id returns with the record removed and
\* closed; the default, when it was id, is then a remaining live id if there
\* is one and None otherwise, and is unchanged when it was another;
\* unregister of an id that is not live changes nothing.
C25_Unregister ==
    [][\A t \in Tasks :
          /\ \A id \in InstanceIds :
                Unregister(t, id) /\ tasks'[t].pc = "idle" =>
                    IF InstHas(id) THEN Unregistered(id, InstRec(id)) ELSE RegistryUntouched
          /\ UnregisterGranted(t) /\ tasks'[t].pc = "idle" =>
                IF InstHas(tasks[t].iid) THEN Unregistered(tasks[t].iid, InstRec(tasks[t].iid))
                ELSE RegistryUntouched
          /\ UnregisterResume(t) => Unregistered(tasks[t].iid, tasks[t].rec)
      ]_vars

\* C25 witness: unregister of the default has popped it and closes it while
\* another instance is live: its return re-elects the default
C25_Witness ==
    \E t \in Tasks : /\ tasks[t].pc = "unreg_close"
                     /\ default_instance_id = tasks[t].iid
                     /\ recs[tasks[t].rec].writer = "closing"
                     /\ Len(instances) > 0


\* register(id) finds a grace period of id that remembers it as the default
RestoresDefault(id) ==
    /\ id \in DOMAIN grace_period_tasks
    /\ id \in DOMAIN was_default
    /\ was_default[id]

\* the step leaves what register(id) promises, restore telling whether it
\* restores a was_default flag: a new READY record is filed under id, and
\* the default is id when restored or when there was none, else as it was
Installed(id, restore) ==
    /\ \E i \in 1..Len(instances') : /\ instances'[i].id = id
                                     /\ instances'[i].rec = Len(recs) + 1
    /\ Len(recs') = Len(recs) + 1
    /\ recs'[Len(recs')].status = "ready"
    /\ default_instance_id' = IF restore \/ default_instance_id = NoneId THEN id
                              ELSE default_instance_id

DefaultTargets == InstanceIds \cup {"p"}

NextDefault ==
    \/ \E t \in Tasks, id \in InstanceIds : Register(t, id)
    \/ \E t \in Tasks : RegisterGranted(t)
    \/ \E t \in Tasks : RegisterResume(t)
    \/ \E t \in Tasks, id \in InstanceIds : Unregister(t, id)
    \/ \E t \in Tasks : UnregisterGranted(t)
    \/ \E t \in Tasks : UnregisterResume(t)
    \/ \E t \in Tasks, id \in InstanceIds, file_says \in BOOLEAN :
          DisconnectWithGracePeriod(t, id, RELOAD_TIMEOUT_MS, file_says)
    \/ \E t \in Tasks : DisconnectResume(t)
    \/ \E t \in Tasks : DisconnectGranted(t)
    \/ \E k \in DOMAIN timers : TimerExpire(k)
    \/ \E k \in DOMAIN timers : TimerGranted(k)
    \/ \E id \in DefaultTargets : ClientSetDefault(id)

SpecDefault == Init /\ [][NextDefault]_vars

\* C27: SET_DEFAULT naming x is answered with RESPONSE{success: True} and
\* makes x the default when x is the id of a live record; else, x being
\* unknown or only in the grace-period table, it is answered with ERROR
\* INSTANCE_NOT_FOUND and the default stays.
C27_SetDefault ==
    [][\A x \in DefaultTargets :
          ClientSetDefault(x) =>
              IF \E i \in 1..Len(instances) : instances[i].id = x
              THEN last'.ret = Resp(TRUE, "", 0) /\ default_instance_id' = x
              ELSE /\ last'.ret = Error("INSTANCE_NOT_FOUND")
                   /\ default_instance_id' = default_instance_id
      ]_vars

\* C27 witness: SET_DEFAULT was refused while an id is only in the
\* grace-period table
C27_Witness ==
    /\ last.how = "set_default"
    /\ last.ret = Error("INSTANCE_NOT_FOUND")
    /\ \E id \in DOMAIN grace_period_tasks : ~InstHas(id)


(***************************************************************************)
(* Shutdown: stop() runs in a task of its own while connection handlers    *)
(* and a client request go on.                                             *)
(***************************************************************************)
MaxStopConns == 3    \* SpecStop: at most this many agent connections are accepted

\* the task that runs stop(), next to the connection handlers
StopTask == NumTasks + 1

StopCalls == {1}

StopRequestIds == {"r1"}

InitStop ==
    /\ InitCache
    /\ InitServer
    /\ recs = <<>>
    /\ instances = <<>>
    /\ default_instance_id = NoneId
    /\ grace_period_tasks = EmptyMap
    /\ was_default = EmptyMap
    /\ timers = <<>>
    /\ lock = [holder |-> 0, waiters |-> <<>>]
    /\ tasks = [t \in 1..StopTask |->
                   [IdleTask EXCEPT !.via = IF t = StopTask THEN "stop" ELSE "conn"]]

\* server.py lines 86-101: stop() clears _running, cancels the heartbeat
\* tasks that are filed and clears their table, cancels the Futures that
\* are filed and clears their table, and calls close_all().  A cancelled
\* heartbeat task pops the slot of its id on its way out (lines 315-323).
Stop ==
    LET filed == {heartbeat_tasks[id] : id \in DOMAIN heartbeat_tasks} \cap DOMAIN heartbeats
        slots == {pending_commands[r] : r \in DOMAIN pending_commands}
    IN  /\ running
        /\ running' = FALSE
        /\ heartbeat_tasks' = EmptyMap
        /\ heartbeats' = Del(heartbeats, filed)
        /\ pong_events' = Del(pong_events, filed)
        /\ pending_pongs' = Del(pending_pongs, {recs[b].iid : b \in filed})
        /\ reqs' = [c \in DOMAIN reqs |->
                       IF c \in slots /\ reqs[c].future = "pending"
                       THEN [reqs[c] EXCEPT !.future = "cancelled"] ELSE reqs[c]]
        /\ pending_commands' = EmptyMap
        /\ CloseAllCall(StopTask)
        /\ NoCallEnds
        /\ UNCHANGED <<cacheState, answered, gap, executions, queue_log, wire, clock>>

\* server.py lines 103-111: close_all() has returned; the cache sweeper is
\* stopped and the listener is closed: stop() returns
StopEnds ==
    /\ ~running
    /\ tasks[StopTask].pc = "idle"
    /\ tasks' = [tasks EXCEPT ![StopTask].pc = "stopped"]
    /\ NoCallEnds
    /\ UNCHANGED <<cacheState, srvVars, recs, instances, default_instance_id,
                   grace_period_tasks, was_default, timers, lock>>

\* stop() has returned
Stopped == tasks[StopTask].pc = "stopped"

\* server.py lines 198-215: a read of the handler of connection t comes
\* back (a frame, or a timeout the registry does not confirm) while the
\* server does not run: it leaves the loop
HandlerLeaves(t) ==
    /\ tasks[t].pc = "loop"
    /\ ~running
    /\ Teardown(t, recs)
    /\ NoCallEnds
    /\ UNCHANGED <<cacheState, pending_commands, reqs, answered, executions, queue_log>>
    /\ UNCHANGED clock

\* server.py lines 565, 591-600 and request_cache.py lines 144-149: the
\* Future a handler waits on was cancelled: CancelledError passes through
\* both finally clauses and ends the handler
ExecCancelled(c) ==
    /\ reqs[c].pc = "sent"
    /\ reqs[c].future = "cancelled"
    /\ FinishRaise(c)
    /\ Finally(c, recs)
    /\ UNCHANGED <<instances, default_instance_id, grace_period_tasks, was_default,
                   timers, lock, tasks, heartbeat_tasks, running, wire, clock, heartbeats, pending_pongs,
                   pong_events, answered, gap, executions, queue_log>>

NextStop ==
    \/ \E t \in Tasks, id \in InstanceIds :
          /\ Accepted < MaxStopConns
          /\ ~Stopped
          /\ HandleUnityConnection(t, id)
    \/ \E t \in Tasks : ConnectionGranted(t)
    \/ \E t \in Tasks : ConnectionResumes(t)
    \/ \E t \in Tasks : AgentEOF(t)
    \/ \E t \in Tasks : HandlerLeaves(t)
    \/ \E t \in Tasks : UnregisterGranted(t)
    \/ \E t \in Tasks : UnregisterResume(t)
    \/ \E c \in StopCalls, r \in StopRequestIds, target \in InstanceIds :
          nexec < MaxClientExec /\ CliRequest(c, r, target)
    \/ \E c \in StopCalls : PollWake(c)
    \/ \E t \in Tasks, r \in StopRequestIds : AgentResult(t, r, TRUE, 1)
    \/ \E c \in StopCalls : ExecResult(c)
    \/ \E c \in StopCalls : ExecTimeout(c)
    \/ \E c \in StopCalls : ExecCancelled(c)
    \/ Stop
    \/ CloseAllGranted(StopTask)
    \/ CloseAllResume(StopTask)
    \/ StopEnds

SpecStop == InitStop /\ [][NextStop]_vars

\* C24: once stop() has returned, the heartbeat-task table and the
\* pending-command table are empty, every Future a handler still waits on is
\* cancelled, the registry has no live record and no default, every
\* instance's writer is closed and no command is left in a queue.
C24_AfterStop ==
    Stopped =>
        /\ DOMAIN heartbeat_tasks = {}
        /\ DOMAIN pending_commands = {}
        /\ \A c \in DOMAIN reqs : reqs[c].pc = "sent" => reqs[c].future = "cancelled"
        /\ instances = <<>>
        /\ default_instance_id = NoneId
        /\ \A h \in DOMAIN recs : recs[h].writer = "none" /\ recs[h].command_queue = <<>>

\* ---------------------------------------------------------------------
\* Framing (src/relay/protocol.py lines 20-21 and 326-368)
\* ---------------------------------------------------------------------
\* A payload is the JSON object {"d": s}: s holds the characters d followed
\* by pad times the letter x.  Its bytes are kept as the bytes up to the
\* padding, the number of padding bytes, and the bytes after it, so that a
\* payload of 16 MiB is a record and not a sequence of 16 777 216 bytes.
MAX_PAYLOAD_BYTES == 16777216

HEADER_SIZE == 4

MaxDetail == 2

Chars == {"a", "e'"}

Details == UNION {[1..n -> Chars] : n \in 0..MaxDetail}

\* the bytes of {"d": " and of "} as json.dumps writes them
Prefix == <<123, 34, 100, 34, 58, 32, 34>>

Suffix == <<34, 125>>

Overhead == Len(Prefix) + Len(Suffix)

Pads == {0, 1, MAX_PAYLOAD_BYTES - Overhead - 2, MAX_PAYLOAD_BYTES - Overhead - 1,
         MAX_PAYLOAD_BYTES - Overhead, MAX_PAYLOAD_BYTES - Overhead + 1}

Docs == [d : Details, pad : Pads]

\* str.encode("utf-8") of one character: a is U+0061, e' is U+00E9
Utf8(ch) == IF ch = "a" THEN <<97>> ELSE <<195, 169>>

RECURSIVE Utf8Seq(_)
Utf8Seq(s) == IF s = <<>> THEN <<>> ELSE Utf8(Head(s)) \o Utf8Seq(Tail(s))

\* bytes.decode("utf-8"): a byte below 128 is one character, a lead byte of
\* 110xxxxx takes one continuation byte
RECURSIVE Utf8Decode(_)
Utf8Decode(bs) ==
    IF bs = <<>> THEN <<>>
    ELSE IF bs[1] < 128
         THEN <<IF bs[1] = 97 THEN "a" ELSE "?">> \o Utf8Decode(Tail(bs))
         ELSE IF Len(bs) >= 2 /\ bs[1] = 195 /\ bs[2] = 169
              THEN <<"e'">> \o Utf8Decode(Tail(Tail(bs)))
              ELSE <<"?">> \o Utf8Decode(Tail(bs))

\* json.dumps(payload, ensure_ascii=False).encode("utf-8"), line 334
Encode(x) ==
    [head |-> Prefix \o Utf8Seq(x.d), pad |-> x.pad, tail |-> Suffix]

\* len(payload_bytes), line 335
Size(p) == Len(p.head) + p.pad + Len(p.tail)

\* json.loads(payload_bytes.decode("utf-8")), lines 354-355
Decode(p) == [d |-> Utf8Decode(SubSeq(p.head, Len(Prefix) + 1, Len(p.head))), pad |-> p.pad]

\* struct.pack(">I", length), line 340
BigEndian(n) == <<(n \div 16777216) % 256, (n \div 65536) % 256, (n \div 256) % 256, n % 256>>

\* struct.unpack(">I", header_bytes)[0], line 348
Unpack(h) == h[1] * 16777216 + h[2] * 65536 + h[3] * 256 + h[4]

\* the error write_frame and read_frame raise for a length above the bound
\* (lines 337-338 and 350-351)
TooLargeError == "ValueError"

\* write_frame, lines 330-342: the length is checked before the header or the
\* payload is written
WriteFrame(x) ==
    /\ wire.wrote = "none"
    /\ LET payload_bytes == Encode(x)
           length == Size(payload_bytes)
       IN  wire' = IF length > MAX_PAYLOAD_BYTES
                   THEN [wire EXCEPT !.x = x, !.wrote = TooLargeError]
                   ELSE [wire EXCEPT !.x = x, !.wrote = "ok", !.hdr = BigEndian(length),
                                     !.body = payload_bytes]
    /\ NoCallEnds
    /\ UNCHANGED <<cacheState, regVars, heartbeat_tasks, running, clock, heartbeats, pending_pongs,
                   pong_events, pending_commands, reqs, answered, gap, executions, queue_log>>

\* the peer writes a frame with the framing of its own: the header declares
\* `declared` bytes and the payload of x follows
PeerFrame(x, declared) ==
    /\ wire.wrote = "none"
    /\ wire' = [wire EXCEPT !.x = x, !.wrote = "peer", !.hdr = BigEndian(declared), !.body = Encode(x)]
    /\ NoCallEnds
    /\ UNCHANGED <<cacheState, regVars, heartbeat_tasks, running, clock, heartbeats, pending_pongs,
                   pong_events, pending_commands, reqs, answered, gap, executions, queue_log>>

\* read_frame, lines 345-356: readexactly(4), the check of the declared
\* length, readexactly(length), then the decoding
ReadFrame ==
    /\ wire.read = "none"
    /\ wire.hdr # <<>>
    /\ LET length == Unpack(wire.hdr)
       IN  wire' = IF length > MAX_PAYLOAD_BYTES
                   THEN [wire EXCEPT !.read = TooLargeError, !.taken = HEADER_SIZE]
                   ELSE IF length > Size(wire.body)
                   THEN [wire EXCEPT !.read = "IncompleteReadError",
                                     !.taken = HEADER_SIZE + Size(wire.body)]
                   ELSE IF length < Size(wire.body)
                   THEN [wire EXCEPT !.read = "JSONDecodeError", !.taken = HEADER_SIZE + length]
                   ELSE [wire EXCEPT !.read = "ok", !.out = Decode(wire.body),
                                     !.taken = HEADER_SIZE + length]
    /\ NoCallEnds
    /\ UNCHANGED <<cacheState, regVars, heartbeat_tasks, running, clock, heartbeats, pending_pongs,
                   pong_events, pending_commands, reqs, answered, gap, executions, queue_log>>

\* the lengths a peer declares: the bytes it sends, the bound, one above it
Declared(x) == {Size(Encode(x)), MAX_PAYLOAD_BYTES, MAX_PAYLOAD_BYTES + 1}

NextFraming ==
    \/ \E x \in Docs : WriteFrame(x)
    \/ \E x \in Docs : \E declared \in Declared(x) : PeerFrame(x, declared)
    \/ ReadFrame

SpecFraming == Init /\ [][NextFraming]_vars

\* C21: a JSON object of at most 16 MiB written by write_frame is returned by
\* read_frame unchanged, under a 4-byte big-endian header that holds its byte
\* count; a payload above 16 MiB fails in write_frame with PAYLOAD_TOO_LARGE and
\* nothing is emitted, and a declared length above 16 MiB fails in read_frame
\* with PAYLOAD_TOO_LARGE and no payload byte is consumed.
C21_Framing ==
    LET length == Size(Encode(wire.x))
        written == wire.wrote \notin {"none", "peer"}
    IN  /\ (written /\ length <= MAX_PAYLOAD_BYTES) =>
               /\ wire.wrote = "ok"
               /\ Len(wire.hdr) = HEADER_SIZE
               /\ Unpack(wire.hdr) = length
               /\ wire.read # "none" => (wire.read = "ok" /\ wire.out = wire.x)
        /\ (written /\ length > MAX_PAYLOAD_BYTES) =>
               /\ wire.wrote = "PAYLOAD_TOO_LARGE"
               /\ wire.hdr = <<>>
        /\ (wire.read # "none" /\ Unpack(wire.hdr) > MAX_PAYLOAD_BYTES) =>
               /\ wire.read = "PAYLOAD_TOO_LARGE"
               /\ wire.taken <= HEADER_SIZE

(***************************************************************************)
(* The race of a reconnecting register(id) with the expiry of the timer of *)
(* id (SpecRegistry).                                                      *)
(***************************************************************************)
\* this step runs lines 203-208 of register(id): at once on a free lock, or
\* when the lock is handed to it
RegisterBody(t, id) ==
    \/ Register(t, id) /\ LockFree
    \/ RegisterGranted(t) /\ tasks[t].iid = id

\* task or timer `who` holds the lock or waits for it
InLock(l, who) == l.holder = who \/ \E i \in 1..Len(l.waiters) : l.waiters[i] = who

\* C31: register(id) and the expiry of id's timer exclude each other.  When
\* register finds id in the grace table, the tracked timer is cancelled for
\* good, leaves the lock's queue, and the was_default flag goes to register,
\* which restores the default; a cancelled timer never runs its body.  When
\* the body of a timer runs, it was not cancelled, it takes the grace entry
\* and the flag away before any register looks, no register acts in the same
\* step, and it changes the default only by re-electing a default that named
\* id under a true flag.
C31_ExactlyOneOutcome ==
    [][ /\ \A t \in Tasks, id \in InstanceIds :
              RegisterBody(t, id) /\ id \in DOMAIN grace_period_tasks =>
                  LET k == grace_period_tasks[id]
                  IN  /\ timers[k].pc \in {"sleep", "lock"}
                      /\ timers'[k].pc = "cancelled"
                      /\ ~InLock(lock', -k)
                      /\ id \notin DOMAIN grace_period_tasks'
                      /\ id \notin DOMAIN was_default'
                      /\ RestoresDefault(id) =>
                            \/ tasks'[t].pc # "reg_close" /\ default_instance_id' = id
                            \/ tasks'[t].pc = "reg_close" /\ tasks'[t].restore
                                   /\ default_instance_id' = default_instance_id
        /\ \A t \in Tasks, id \in InstanceIds :
              RegisterBody(t, id) /\ id \notin DOMAIN grace_period_tasks =>
                  /\ \A k \in DOMAIN timers : timers'[k].pc = timers[k].pc
                  /\ tasks'[t].pc = "reg_close" => ~tasks'[t].restore
                  /\ tasks'[t].pc # "reg_close" =>
                        default_instance_id' = IF default_instance_id = NoneId THEN id
                                               ELSE default_instance_id
        /\ \A k \in DOMAIN timers :
              timers[k].pc = "cancelled" => timers'[k] = timers[k]
        /\ \A k \in DOMAIN timers :
              Expires(k) =>
                  LET id == timers[k].iid
                  IN  /\ id \notin DOMAIN grace_period_tasks'
                      /\ id \notin DOMAIN was_default'
                      /\ tasks' = tasks
                      /\ \A j \in DOMAIN timers : j # k => timers'[j] = timers[j]
                      /\ default_instance_id' # default_instance_id =>
                            /\ id \in DOMAIN was_default /\ was_default[id]
                            /\ default_instance_id = id
                            /\ default_instance_id' = Reelect(instances)
      ]_vars

\* C31 witness: the timer of a default id has expired and waits for the lock
\* while a register of the same id waits for it too
C31_Witness ==
    \E k \in DOMAIN timers : \E t \in Tasks :
        /\ timers[k].pc = "lock"
        /\ tasks[t].pc = "reg_lock"
        /\ tasks[t].iid = timers[k].iid
        /\ timers[k].iid \in DOMAIN grace_period_tasks
        /\ grace_period_tasks[timers[k].iid] = k
        /\ timers[k].iid \in DOMAIN was_default
        /\ was_default[timers[k].iid]

(***************************************************************************)
(* Commands that came through the queue (SpecQueue).                       *)
(***************************************************************************)
\* the COMMAND of request r is written in this step
Emits(r) ==
    /\ Len(queue_log'.emitted) > Len(queue_log.emitted)
    /\ \E i \in (Len(queue_log.emitted) + 1)..Len(queue_log'.emitted) : queue_log'.emitted[i] = r

\* the caller of request r was answered TIMEOUT while it waited in the queue
GaveUp(r) ==
    \E e \in DOMAIN executions :
        /\ executions[e].parent = 0
        /\ executions[e].rid = r
        /\ executions[e].pc = "done"
        /\ executions[e].result = "TIMEOUT"

\* C32: no COMMAND is written for an enqueued request whose caller has been
\* answered TIMEOUT.
C32_NoDispatchAfterTimeout ==
    [][\A r \in 1..MaxQueueCalls : GaveUp(r) => ~Emits(r)]_vars

\* invocation e of _execute_command leaves its wait for the COMMAND's Future
\* in this step
Finishes(e) == executions[e].pc = "sent" /\ executions'[e].pc # "sent"

\* some invocation will reach the `finally` that processes the queue: a
\* COMMAND is in flight, or _process_queue is inside the invocation it made
PumpAlive ==
    \E e \in DOMAIN executions :
        \/ executions[e].pc = "sent"
        \/ executions[e].pc = "poll" /\ executions[e].parent # 0

\* C33, the slot and the status: when a dispatched command finishes, its
\* pending slot is gone and a status that was BUSY is READY, or BUSY again for
\* the COMMAND the queue processing wrote
C33_SlotAndStatus ==
    [][\A e \in DOMAIN executions :
          Finishes(e) =>
              /\ \A r \in DOMAIN pending_commands' : pending_commands'[r] # e
              /\ recs[QueueInstance].status = "busy" =>
                    \/ recs'[QueueInstance].status = "ready" /\ queue_log'.emitted = queue_log.emitted
                    \/ recs'[QueueInstance].status = "busy" /\ queue_log'.emitted # queue_log.emitted
      ]_vars

\* C33: when a dispatched command finishes, its slot is removed, BUSY goes
\* back to READY, and the queue is processed until it is empty: commands are
\* left in the queue only while an invocation that will process it is under
\* way, also after a dequeued command ended without being dispatched.
C33_FinishPumps ==
    [][ /\ \A e \in DOMAIN executions :
              Finishes(e) =>
                  /\ \A r \in DOMAIN pending_commands' : pending_commands'[r] # e
                  /\ recs[QueueInstance].status = "busy" =>
                        recs'[QueueInstance].status \in {"ready", "busy"}
        /\ (PumpAlive /\ recs'[QueueInstance].command_queue # <<>>) => PumpAlive'
      ]_vars

\* C39: the caller of a dispatched command has its reply when the
\* COMMAND_RESULT or the timeout of that command was observed: no invocation
\* holds its reply back while commands that were queued behind it execute.
C39_ReplyWithoutWaiting ==
    \A e \in DOMAIN executions : executions[e].pc # "finally"

(***************************************************************************)
(* Capabilities: agent A has registered with a capability list that names  *)
(* no command, command "c", or both commands.  Clients send REQUESTs for   *)
(* the commands "c" and "d".                                               *)
(***************************************************************************)
NumCapabilityCalls == 2

MaxCapabilityExec == 2

CapabilityCalls == 1..NumCapabilityCalls

CommandNames == {"c", "d"}

CapabilitySets == {{}, {"c"}, CommandNames}

\* the state after REGISTER from A (server.py lines 176-194)
InitCapability ==
    /\ InitCache
    /\ \E caps \in CapabilitySets :
          recs = <<[NewInstance("A") EXCEPT !.capabilities = caps]>>
    /\ instances = <<[id |-> "A", rec |-> 1]>>
    /\ default_instance_id = "A"
    /\ grace_period_tasks = EmptyMap
    /\ was_default = EmptyMap
    /\ timers = <<>>
    /\ lock = [holder |-> 0, waiters |-> <<>>]
    /\ tasks = [t \in Tasks |->
                   IF t = 1 THEN [IdleTask EXCEPT !.pc = "loop", !.iid = "A", !.inst = 1,
                                                  !.via = "conn"]
                   ELSE [IdleTask EXCEPT !.via = "conn"]]
    /\ heartbeat_tasks = [id \in {"A"} |-> 1]
    /\ heartbeats = [b \in {1} |-> 0]
    /\ pending_commands = EmptyMap
    /\ reqs = [c \in Calls |-> IdleReq]
    /\ answered = EmptyMap
    /\ gap = {}
    /\ executions = <<>>
    /\ queue_log = [enqueued |-> <<>>, emitted |-> <<>>]
    /\ pending_pongs = EmptyMap
    /\ pong_events = EmptyMap
    /\ running = TRUE
    /\ wire = NoWire
    /\ clock = NoClock

NextCapability ==
    \/ \E t \in Tasks, status \in Statuses : AgentStatus(t, status)
    \/ \E t \in Tasks, r \in RequestIds, success \in BOOLEAN : AgentResult(t, r, success, 1)
    \/ \E t \in Tasks : AgentEOF(t)
    \/ \E t \in Tasks : UnregisterResume(t)
    \/ \E c \in CapabilityCalls, r \in RequestIds : HandleRequestHit(c, r)
    \/ \E c \in CapabilityCalls, r \in RequestIds, target \in Targets :
          nexec < MaxCapabilityExec /\ CliRequest(c, r, target)
    \/ \E c \in CapabilityCalls : PollWake(c)
    \/ \E c \in CapabilityCalls : ExecResult(c)
    \/ \E c \in CapabilityCalls : ExecTimeout(c)

SpecCapability == InitCapability /\ [][NextCapability]_vars

\* the _execute_command of call c for request r and target leaves its wait
\* loop in this step and reaches the checks of lines 474-498
ReachesChecks(c, r, target) ==
    \/ CliRequest(c, r, target) /\ WaitLoop(target, 0) = "go"
    \/ /\ PollWake(c)
       /\ calls[c].rid = r
       /\ reqs[c].target = target
       /\ WaitLoop(target, reqs[c].waited_ms) = "go"

\* C34: a REQUEST whose target instance has a non-empty capability set
\* without the command is answered CAPABILITY_NOT_SUPPORTED: no slot is
\* filed, no COMMAND is written, and the records (status, queue) stay as they
\* were; an instance with an empty set is never answered for with that code,
\* and takes either command when it is READY and connected.
C34_Capability ==
    [][\A c \in CapabilityCalls, r \in RequestIds, target \in Targets :
          LET h == get_instance_for_request(target)
          IN  (ReachesChecks(c, r, target) /\ h > 0) =>
                  /\ (recs[h].capabilities # {} /\ Command(r) \notin recs[h].capabilities) =>
                        /\ last'.how = "exec"
                        /\ last'.end = "returned"
                        /\ last'.ret = Error("CAPABILITY_NOT_SUPPORTED")
                        /\ pending_commands' = pending_commands
                        /\ recs' = recs
                        /\ reqs'[c].pc # "sent"
                  /\ recs[h].capabilities = {} =>
                        /\ last'.ret.code # "CAPABILITY_NOT_SUPPORTED"
                        /\ (recs[h].status = "ready" /\ recs[h].writer = "open") =>
                              /\ reqs'[c].pc = "sent"
                              /\ reqs'[c].inst = h
                              /\ r \in DOMAIN pending_commands'
                  /\ Command(r) \in recs[h].capabilities =>
                        last'.ret.code # "CAPABILITY_NOT_SUPPORTED"
      ]_vars

\* C34 witness: agent A, which lists command "c" only, is RELOADING and a
\* REQUEST for command "d" has just been answered CAPABILITY_NOT_SUPPORTED
C34_Witness ==
    /\ last.ret = Error("CAPABILITY_NOT_SUPPORTED")
    /\ last.rid = "r2"
    /\ InstHas("A")
    /\ recs[InstRec("A")].capabilities = {"c"}
    /\ recs[InstRec("A")].status = "reloading"
    /\ pending_commands = EmptyMap

(***************************************************************************)
(* Dispatch and the state of the target record (SpecClients).              *)
(***************************************************************************)
\* a record that the wait loop of _execute_command waits for
Unusable(rec) == rec.status \in {"reloading", "disconnected"} \/ rec.writer # "open"

\* call c files its Future, sets its target BUSY and writes the COMMAND in
\* this step
Dispatches(c) == reqs[c].pc # "sent" /\ reqs'[c].pc = "sent"

\* C35: no COMMAND is written to, and no dispatch sets BUSY or READY on, a
\* record that is RELOADING or DISCONNECTED or whose writer is closed; a
\* REQUEST for such a record waits no longer than max_wait_ms and then ends
\* with an error, without a dispatch.
C35_NoDispatchToUnusable ==
    [][\A c \in ClientCalls :
          /\ Dispatches(c) => ~Unusable(recs[reqs'[c].inst])
          /\ reqs'[c].waited_ms <= max_wait_ms
          /\ \A h \in DOMAIN recs :
                (PollWake(c) /\ Unusable(recs[h]) /\ recs'[h].status # recs[h].status) =>
                    reqs[c].target # recs[h].iid
      ]_vars

ReturnsEntry(r) ==
    \/ \E c \in Calls : HandleRequestHit(c, r)
    \/ \E c \in Calls :
          /\ WaiterResume(c)
          /\ calls[c].rid = r
          /\ calls[c].sig \in {"err", "raise"}
          /\ WaiterFinds(r) = "cached"

\* C37: handle_request never returns a cache entry that is older than the
\* TTL, neither as a direct hit nor as the fallback of a waiter whose
\* execution ended with an error response or raised; and the sweeper removes
\* exactly the entries older than the TTL and leaves the fresh entries and
\* the in-flight records as they are.
C37_NoExpiredEntry ==
    [][/\ \A r \in RequestIds : ReturnsEntry(r) => ~is_expired(cache[r])
       /\ CleanupExpired =>
            /\ DOMAIN cache' = {k \in DOMAIN cache : ~is_expired(cache[k])}
            /\ \A k \in DOMAIN cache' : cache'[k] = cache[k]
            /\ UNCHANGED <<pending, pending_results, calls>>]_vars


(***************************************************************************)
(* The heartbeat in time (SpecPing): one agent, registered at time 0, its  *)
(* handler reading frames with a timeout of HEARTBEAT_TIMEOUT_MS and its   *)
(* heartbeat loop sleeping HEARTBEAT_INTERVAL_MS between the rounds.  Time *)
(* passes in steps of Quantum and stops at a timer that is due until the   *)
(* task waiting for it has run.                                            *)
(***************************************************************************)
HEARTBEAT_INTERVAL_MS == 5000

Quantum == HEARTBEAT_INTERVAL_MS \div 5

MaxNow == 40000   \* SpecPing: the clock stops here

PingStatuses == {"ready", "reloading"}

InitPing == InitCapability /\ recs[1].capabilities = {}

\* a frame was handled at clock c: update_heartbeat() (server.py line 223),
\* and the handler reads again (line 200)
Heard(c) == [c EXCEPT !.last_heartbeat = c.now, !.read_from = c.now]

\* the heartbeat tasks in their sleep, and those waiting for a PONG not yet read
Sleeping == DOMAIN heartbeats \ DOMAIN pong_events

Waiting == {b \in DOMAIN pong_events : ~pong_events[b]}

\* what (time.time() - last_heartbeat) * 1000 gives when the read has timed
\* out: the handler reads the clock after the timer fired
Reading == clock.now - clock.last_heartbeat + 1

\* time passes; no timer is due and no task is ready to run
Advance ==
    /\ clock.now < MaxNow
    /\ \A t \in Tasks : /\ tasks[t].pc \in {"idle", "loop"}
                        /\ tasks[t].pc = "loop" => clock.now < clock.read_from + HEARTBEAT_TIMEOUT_MS
    /\ Sleeping # {} => clock.now < clock.slept_from + HEARTBEAT_INTERVAL_MS
    /\ DOMAIN pong_events = Waiting
    /\ Waiting # {} => clock.now < clock.ping_at + clock.ping_timeout
    /\ clock' = [clock EXCEPT !.now = @ + Quantum]
    /\ NoCallEnds
    /\ UNCHANGED <<cacheState, regVars, heartbeat_tasks, running, wire, heartbeats, pending_pongs,
                   pong_events, pending_commands, reqs, answered, gap, executions, queue_log>>

\* server.py lines 270-290: the sleep of heartbeat task b is over
PingSent(b) ==
    /\ b \in Sleeping
    /\ clock.now = clock.slept_from + HEARTBEAT_INTERVAL_MS
    /\ HeartbeatPingCore(b)
    /\ clock' = [clock EXCEPT !.ping_at = clock.now,
                              !.ping_timeout = IF recs[b].status = "reloading"
                                               THEN RELOAD_TIMEOUT_MS ELSE HEARTBEAT_TIMEOUT_MS]

\* server.py lines 200-204, 223, 247-251: the agent answers the PING that is
\* out, before its timeout, and the handler reads the PONG
PongRead(t) ==
    /\ Waiting # {}
    /\ clock.now < clock.ping_at + clock.ping_timeout
    /\ AgentPongCore(t)
    /\ clock' = Heard(clock)

\* server.py lines 200-204, 223-230: the handler reads a STATUS frame
StatusRead(t, status) ==
    /\ AgentStatusCore(t, status)
    /\ clock' = Heard(clock)

\* server.py lines 291-296, 315-317, 270: the wait for the PONG returns and
\* the loop sleeps again
PongWaitOver(b) ==
    /\ HeartbeatPongCore(b)
    /\ clock' = [clock EXCEPT !.slept_from = clock.now]

\* server.py lines 297-306, 315-317, 270: the wait for the PONG times out
PingTimeout(b) ==
    /\ b \in Waiting
    /\ clock.now = clock.ping_at + clock.ping_timeout
    /\ HeartbeatTimeoutCore(b)
    /\ clock' = [clock EXCEPT !.slept_from = clock.now, !.missed = TRUE]

\* server.py lines 200-208: no frame came for HEARTBEAT_TIMEOUT_MS
ReadTimedOut(t) ==
    /\ clock.now = clock.read_from + HEARTBEAT_TIMEOUT_MS
    /\ ReadTimeoutCore(t, Reading)
    /\ clock' = [clock EXCEPT !.read_from = clock.now]

NextPing ==
    \/ Advance
    \/ \E b \in DOMAIN heartbeats : PingSent(b)
    \/ \E t \in Tasks : PongRead(t)
    \/ \E t \in Tasks, status \in PingStatuses : StatusRead(t, status)
    \/ \E b \in DOMAIN heartbeats : PongWaitOver(b)
    \/ \E b \in DOMAIN heartbeats : PingTimeout(b)
    \/ \E t \in Tasks : ReadTimedOut(t)
    \/ \E t \in Tasks : UnregisterResume(t)

SpecPing == InitPing /\ [][NextPing]_vars

\* C38: an instance that has answered every PING with a PONG before the
\* ping timeout is registered and not DISCONNECTED, and its handler reads on:
\* a read timeout on its connection does not disconnect it.
C38_AnsweringStaysConnected ==
    ~clock.missed =>
        /\ InstHas("A")
        /\ recs[InstRec("A")].status # "disconnected"
        /\ tasks[1].pc = "loop"


(***************************************************************************)
(* Whose COMMAND_RESULT completes a slot (SpecResults): the agents and the *)
(* clients of SpecClients, every COMMAND_RESULT carrying as its data the   *)
(* record of the connection it is read from.                               *)
(***************************************************************************)
NextResults ==
    \/ \E t \in Tasks, id \in InstanceIds :
          Accepted < MaxClientConns /\ HandleUnityConnection(t, id)
    \/ \E t \in Tasks : ConnectionGranted(t)
    \/ \E t \in Tasks : ConnectionResumes(t)
    \/ \E t \in Tasks, r \in ClientRequestIds, success \in BOOLEAN :
          AgentResult(t, r, success, tasks[t].inst)
    \/ \E t \in Tasks : AgentEOF(t)
    \/ \E t \in Tasks : UnregisterGranted(t)
    \/ \E t \in Tasks : UnregisterResume(t)
    \/ \E c \in ClientCalls, r \in ClientRequestIds : HandleRequestHit(c, r)
    \/ \E c \in ClientCalls, r \in ClientRequestIds, target \in ClientTargets :
          nexec < MaxClientExec /\ CliRequest(c, r, target)
    \/ \E c \in ClientCalls : PollWake(c)
    \/ \E c \in ClientCalls : ExecResult(c)
    \/ \E c \in ClientCalls : ExecTimeout(c)

SpecResults == InitRelay /\ [][NextResults]_vars

\* C40: the slot of a COMMAND dispatched to an instance is completed only by
\* a COMMAND_RESULT read from the connection of that instance: the result a
\* completed Future holds came from the record the COMMAND was written to.
C40_ResultFromItsInstance ==
    \A c \in ClientCalls :
        reqs[c].future = "done" => reqs[c].result.data = reqs[c].inst

====
